---- MODULE Spec2Model ----
(***************************************************************************)
(* A model of the conversion engine of markdown.py (Python-Markdown        *)
(* 2.0-alpha).  Text is a sequence of one-character strings; a line list   *)
(* is a sequence of texts; a tree node is a record.  Positions follow      *)
(* Python: 0-based, half-open slices.                                      *)
(***************************************************************************)
EXTENDS Integers, Sequences, FiniteSets, TLC

VARIABLES
    pc,        \* control position of the scenario being run
    engines,   \* per Markdown instance: its own objects and conversion state
    globals,   \* attributes of the module-level singleton processors/patterns
    io,        \* the input of the operation under study and what it returned
    obs        \* what the run has observed so far (history of the operation)

vars == <<pc, engines, globals, io, obs>>

(***************************************************************************)
(* Python string primitives                                                *)
(***************************************************************************)
Min(a, b) == IF a < b THEN a ELSE b
Max(a, b) == IF a > b THEN a ELSE b

\* the least and the greatest of a set of numbers, -1 of the empty set
Least(ks) == IF ks = {} THEN -1 ELSE CHOOSE i \in ks : \A j \in ks : i <= j
Greatest(ks) == IF ks = {} THEN -1 ELSE CHOOSE i \in ks : \A j \in ks : i >= j

\* Body applied to a value: "LET v == value IN Body(v)" with the value
\* written once and, as a statement of the code is, worked out (by the
\* comparison) before what follows it is entered
With(value, Body(_)) == CASE value = value -> Body(value)

\* s[a:b] for 0 <= a, with b clamped to len(s)
Slice(s, a, b) ==
    LET lo == Max(a, 0)
        hi == Min(b, Len(s))
    IN  IF hi <= lo THEN <<>> ELSE SubSeq(s, lo + 1, hi)

\* s[a:]
From(s, a) == Slice(s, a, Len(s))

\* s[i] for an index known to be in range (0-based)
At(s, i) == s[i + 1]

StartsWithAt(s, sub, i) ==
    /\ i >= 0
    /\ i + Len(sub) <= Len(s)
    /\ \A k \in 1..Len(sub) : s[i + k] = sub[k]

StartsWith(s, sub) == StartsWithAt(s, sub, 0)

EndsWith(s, sub) == StartsWithAt(s, sub, Len(s) - Len(sub))

\* s.find(sub, start): the lowest index >= start where sub occurs, or -1
Find(s, sub, start) ==
    LET hits == {i \in Max(start, 0)..(Len(s) - Len(sub)) : StartsWithAt(s, sub, i)}
    IN  IF hits = {} THEN -1 ELSE CHOOSE i \in hits : \A j \in hits : i <= j

Contains(s, sub) == Find(s, sub, 0) # -1

IsSpace(c) == c \in {" ", "\n", "\t", "\r"}

\* the number of leading elements of s that are in the set cs
Span(s, cs) ==
    IF \A i \in 1..Len(s) : s[i] \in cs THEN Len(s)
    ELSE Least({i \in 1..Len(s) : s[i] \notin cs}) - 1

\* the number of trailing elements of s that are in the set cs
RSpan(s, cs) ==
    IF \A i \in 1..Len(s) : s[i] \in cs THEN Len(s)
    ELSE Len(s) - Greatest({i \in 1..Len(s) : s[i] \notin cs})

WhiteSpace == {" ", "\n", "\t", "\r"}

LStrip(s) == From(s, Span(s, WhiteSpace))

RStrip(s) == Slice(s, 0, Len(s) - RSpan(s, WhiteSpace))

Strip(s) == LStrip(RStrip(s))

UpperCase ==
    <<"A", "B", "C", "D", "E", "F", "G", "H", "I", "J", "K", "L", "M",
      "N", "O", "P", "Q", "R", "S", "T", "U", "V", "W", "X", "Y", "Z">>

LowerCase ==
    <<"a", "b", "c", "d", "e", "f", "g", "h", "i", "j", "k", "l", "m",
      "n", "o", "p", "q", "r", "s", "t", "u", "v", "w", "x", "y", "z">>

\* unicode.lower() of one character
LowerChar(c) ==
    IF \E i \in 1..Len(UpperCase) : UpperCase[i] = c
    THEN LowerCase[CHOOSE i \in 1..Len(UpperCase) : UpperCase[i] = c]
    ELSE c

Lower(s) == [i \in 1..Len(s) |-> LowerChar(s[i])]

\* sep.join(parts)
RECURSIVE Join(_, _)
Join(parts, sep) ==
    IF parts = <<>> THEN <<>>
    ELSE IF Len(parts) = 1 THEN parts[1]
    ELSE parts[1] \o sep \o Join(Tail(parts), sep)

\* s.split(sep) for a non-empty separator
RECURSIVE Split(_, _)
Split(s, sep) ==
    LET i == Find(s, sep, 0)
    IN  IF i = -1 THEN <<s>>
        ELSE <<Slice(s, 0, i)>> \o Split(From(s, i + Len(sep)), sep)

\* s.replace(old, new)
RECURSIVE Replace(_, _, _)
Replace(s, old, new) ==
    LET i == Find(s, old, 0)
    IN  IF i = -1 THEN s
        ELSE Slice(s, 0, i) \o new \o Replace(From(s, i + Len(old)), old, new)

\* s.replace(old, new, 1)
ReplaceFirst(s, old, new) ==
    LET i == Find(s, old, 0)
    IN  IF i = -1 THEN s ELSE Slice(s, 0, i) \o new \o From(s, i + Len(old))

\* s.split(): the whitespace-separated words of s
RECURSIVE Words(_)
Words(s) ==
    LET t == LStrip(s)
        ends == {i \in 1..Len(t) : IsSpace(t[i])}
        e == IF ends = {} THEN Len(t) + 1 ELSE CHOOSE i \in ends : \A j \in ends : i <= j
    IN  IF t = <<>> THEN <<>>
        ELSE <<SubSeq(t, 1, e - 1)>> \o Words(SubSeq(t, e, Len(t)))

Digits == {"0", "1", "2", "3", "4", "5", "6", "7", "8", "9"}

DigitChar(n) == <<"0", "1", "2", "3", "4", "5", "6", "7", "8", "9">>[n + 1]

\* "%d" % n
RECURSIVE Decimal(_)
Decimal(n) == IF n < 10 THEN <<DigitChar(n)>> ELSE Decimal(n \div 10) \o <<DigitChar(n % 10)>>

(***************************************************************************)
(* Constants of the module                                                 *)
(***************************************************************************)
TAB_LENGTH == 4

\* U+0002 and U+0003, each one character of the text
STX == "STX"
ETX == "ETX"

\* U+0060, the grave accent, one character of the text
TICK == "TICK"

HTML_PLACEHOLDER_PREFIX == <<STX, "h", "t", "m", "l", ":">>

\* HTML_PLACEHOLDER % n
HTML_PLACEHOLDER(n) == HTML_PLACEHOLDER_PREFIX \o Decimal(n) \o <<ETX>>

INLINE_PLACEHOLDER_PREFIX == <<STX, "i", "n", "l", "i", "n", "e", ":">>

INLINE_PLACEHOLDER_SUFFIX == <<ETX>>

AMP_SUBSTITUTE == <<STX, "a", "m", "p", ETX>>

HTML_REMOVED_TEXT ==
    <<"[", "H", "T", "M", "L", "_", "R", "E", "M", "O", "V", "E", "D", "]">>

BLOCK_LEVEL_ELEMENTS ==
    { <<"p">>, <<"d", "i", "v">>,
      <<"b", "l", "o", "c", "k", "q", "u", "o", "t", "e">>,
      <<"p", "r", "e">>, <<"t", "a", "b", "l", "e">>, <<"d", "l">>,
      <<"o", "l">>, <<"u", "l">>, <<"s", "c", "r", "i", "p", "t">>,
      <<"n", "o", "s", "c", "r", "i", "p", "t">>, <<"f", "o", "r", "m">>,
      <<"f", "i", "e", "l", "d", "s", "e", "t">>,
      <<"i", "f", "r", "a", "m", "e">>, <<"m", "a", "t", "h">>,
      <<"i", "n", "s">>, <<"d", "e", "l">>, <<"h", "r">>, <<"h", "r", "/">>,
      <<"s", "t", "y", "l", "e">> }

\* A call that may raise returns [err, val]: err is "" or the exception's name.
Ok(v) == [err |-> "", val |-> v]
Raise(e) == [err |-> e, val |-> <<>>]

\* isBlockLevel(tag), for a non-empty tag: tag[1] raises on a one-letter "h"
isBlockLevel(tag) ==
    IF tag \in BLOCK_LEVEL_ELEMENTS THEN Ok(TRUE)
    ELSE IF At(tag, 0) # "h" THEN Ok(FALSE)
    ELSE IF Len(tag) < 2 THEN Raise("IndexError")
    ELSE Ok(At(tag, 1) \in Digits)

(***************************************************************************)
(* HtmlStash                                                               *)
(***************************************************************************)
NewHtmlStash == [html_counter |-> 0, rawHtmlBlocks |-> <<>>]

\* HtmlStash.store(html, safe): the stash after the call and the placeholder
HtmlStash_store(stash, html, safe) ==
    [stash |-> [html_counter |-> stash.html_counter + 1,
                rawHtmlBlocks |-> Append(stash.rawHtmlBlocks,
                                         [html |-> html, safe |-> safe])],
     placeholder |-> HTML_PLACEHOLDER(stash.html_counter)]

HtmlStash_rest(stash) == NewHtmlStash

(***************************************************************************)
(* HtmlBlockPreprocessor                                                   *)
(***************************************************************************)
\* block[1:].replace(">", " ", 1).split()[0].lower()
get_left_tag(block) ==
    LET ws == Words(ReplaceFirst(From(block, 1), <<">">>, <<" ">>))
    IN  IF ws = <<>> THEN Raise("IndexError") ELSE Ok(Lower(ws[1]))

\* block.rstrip()[-len(left_tag)-2:-1].lower()
get_right_tag(left_tag, block) ==
    LET b == RStrip(block)
    IN  Lower(Slice(b, Len(b) - Len(left_tag) - 2, Len(b) - 1))

equal_tags(left_tag, right_tag) ==
    IF left_tag = <<"d", "i", "v">> \/ At(left_tag, 0) \in {"?", "@", "%"} THEN TRUE
    ELSE IF <<"/">> \o left_tag = right_tag THEN TRUE
    ELSE IF right_tag = <<"-", "-">> /\ left_tag = <<"-", "-">> THEN TRUE
    ELSE IF left_tag = From(right_tag, 1) /\ At(right_tag, 0) # "<" THEN TRUE
    ELSE FALSE

is_oneliner(tag) == tag \in {<<"h", "r">>, <<"h", "r", "/">>}

\* The loop state of run: st = [err, new_blocks, items, left_tag, in_tag, stash]
\* One iteration of "for block in text" with in_tag false and block starting "<"
HtmlBlock_open(st, block) ==
    With(get_left_tag(block), LAMBDA lt :
    IF lt.err # "" THEN [st EXCEPT !.err = lt.err]
    ELSE
    With(isBlockLevel(lt.val), LAMBDA bl :
    IF bl.err # "" THEN [st EXCEPT !.err = bl.err]
    ELSE IF ~(bl.val \/ At(block, 1) \in {"!", "?", "@", "%"})
    THEN [st EXCEPT !.new_blocks = Append(@, block), !.left_tag = lt.val]
    ELSE IF is_oneliner(lt.val)
    THEN [st EXCEPT !.new_blocks = Append(@, Strip(block)), !.left_tag = lt.val]
    ELSE
    With(IF At(block, 1) = "!" THEN <<"-", "-">> ELSE lt.val, LAMBDA left_tag :
    IF /\ EndsWith(RStrip(block), <<">">>)
       /\ equal_tags(left_tag, get_right_tag(left_tag, block))
    THEN With(HtmlStash_store(st.stash, Strip(block), FALSE), LAMBDA r :
              [st EXCEPT !.new_blocks = Append(@, r.placeholder),
                         !.stash = r.stash, !.left_tag = left_tag])
    ELSE [st EXCEPT !.items = Append(@, Strip(block)),
                    !.in_tag = TRUE, !.left_tag = left_tag])))

\* One iteration of "for block in text"
HtmlBlock_step(st, block0) ==
    With(IF StartsWith(block0, <<"\n">>) THEN From(block0, 1) ELSE block0, LAMBDA block :
    IF ~st.in_tag
    THEN IF StartsWith(block, <<"<">>) THEN HtmlBlock_open(st, block)
         ELSE [st EXCEPT !.new_blocks = Append(@, block)]
    ELSE IF equal_tags(st.left_tag, get_right_tag(st.left_tag, block))
    THEN With(HtmlStash_store(st.stash,
                              Join(Append(st.items, Strip(block)), <<"\n", "\n">>),
                              FALSE),
              LAMBDA r : [st EXCEPT !.in_tag = FALSE, !.items = <<>>,
                                    !.new_blocks = Append(@, r.placeholder),
                                    !.stash = r.stash])
    ELSE [st EXCEPT !.items = Append(@, Strip(block))])

RECURSIVE HtmlBlock_loop(_, _)
HtmlBlock_loop(st, blocks) ==
    IF blocks = <<>> \/ st.err # "" THEN st
    ELSE HtmlBlock_loop(HtmlBlock_step(st, Head(blocks)), Tail(blocks))

\* HtmlBlockPreprocessor.run(text) with self.stash = stash:
\* [err, text, stash] (text and stash as left when the call raised)
HtmlBlockPreprocessor_run(text, stash) ==
    With(HtmlBlock_loop([err |-> "", new_blocks |-> <<>>, items |-> <<>>,
                         left_tag |-> <<>>, in_tag |-> FALSE, stash |-> stash],
                        Split(text, <<"\n", "\n">>)),
         LAMBDA st :
    IF st.err # "" THEN [err |-> st.err, text |-> text, stash |-> st.stash]
    ELSE IF st.items # <<>>
    THEN With(HtmlStash_store(st.stash, Join(st.items, <<"\n", "\n">>), FALSE),
              LAMBDA r :
                  [err |-> "",
                   text |-> Join(st.new_blocks \o <<r.placeholder, <<"\n">>>>,
                                 <<"\n", "\n">>),
                   stash |-> r.stash])
    ELSE [err |-> "", text |-> Join(st.new_blocks, <<"\n", "\n">>),
          stash |-> st.stash])

(***************************************************************************)
(* HeaderPreprocessor                                                      *)
(***************************************************************************)
AllOf(s, c) == \A k \in 1..Len(s) : s[k] = c

InsertAt(lines, i, x) == Slice(lines, 0, i) \o <<x>> \o From(lines, i)

SetAt(lines, i, x) == [lines EXCEPT ![i + 1] = x]

\* The body of the while loop for the non-blank line i (after the "#" insert):
\* the test of lines[i+1] and the rewrite of an underlined header
Header_underline(lines, i) ==
    IF ~(i + 1 <= Len(lines)) THEN Ok(lines)
    ELSE IF i + 1 >= Len(lines) THEN Raise("IndexError")
    ELSE IF At(lines, i + 1) # <<>> /\ At(At(lines, i + 1), 0) \in {"-", "="}
    THEN LET underline == Strip(At(lines, i + 1))
         IN  IF AllOf(underline, "=")
             THEN Ok(SetAt(SetAt(lines, i, <<"#", " ">> \o Strip(At(lines, i))),
                           i + 1, <<>>))
             ELSE IF AllOf(underline, "-")
             THEN Ok(SetAt(SetAt(lines, i, <<"#", "#", " ">> \o Strip(At(lines, i))),
                           i + 1, <<>>))
             ELSE Ok(lines)
    ELSE Ok(lines)

\* while i+1 < len(lines), entered with the loop variable i
RECURSIVE Header_loop(_, _)
Header_loop(lines, i0) ==
    IF ~(i0 + 1 < Len(lines)) THEN Ok(lines)
    ELSE IF Strip(At(lines, i0 + 1)) = <<>> THEN Header_loop(lines, i0 + 1)
    ELSE With(Header_underline(IF StartsWith(At(lines, i0 + 1), <<"#">>)
                               THEN InsertAt(lines, i0 + 2, <<"\n">>) ELSE lines,
                               i0 + 1),
              LAMBDA r : IF r.err # "" THEN r ELSE Header_loop(r.val, i0 + 1))

\* HeaderPreprocessor.run(lines): [err, val]
HeaderPreprocessor_run(lines) == Header_loop(lines, -1)

(***************************************************************************)
(* LinePreprocessor                                                        *)
(***************************************************************************)
\* blockquote_re = ^(> )+ : the length of the matched prefix
RECURSIVE QuotePrefixLen(_)
QuotePrefixLen(line) ==
    IF StartsWith(line, <<">", " ">>) THEN 2 + QuotePrefixLen(From(line, 2)) ELSE 0

NonSpace(s) == SelectSeq(s, LAMBDA c : ~IsSpace(c))

LinePreprocessor_isLine(block) ==
    IF StartsWith(block, <<" ", " ", " ", " ">>) THEN FALSE
    ELSE LET text == NonSpace(block)
         IN  IF Len(text) <= 2 THEN FALSE
             ELSE AllOf(text, "*") \/ AllOf(text, "-") \/ AllOf(text, "_")

LinePreprocessor_run(lines) ==
    [i \in 1..Len(lines) |->
        LET n == QuotePrefixLen(lines[i])
        IN  IF LinePreprocessor_isLine(From(lines[i], n))
            THEN Slice(lines[i], 0, n) \o <<"_", "_", "_">>
            ELSE lines[i]]

(***************************************************************************)
(* ReferencePreprocessor                                                   *)
(***************************************************************************)
NoMatch == [matched |-> FALSE]

\* RE.regExp['reference-def'].match(line):
\* ^(\ ?\ ?\ ?)\[([^\]]*)\]:\s*([^ ]*)(.*)$
ReferenceDef_match(line) ==
    LET sp == Min(Span(line, {" "}), 3)
        rest == From(line, sp)
        close == Find(rest, <<"]">>, 1)
    IN  IF ~StartsWith(rest, <<"[">>) \/ close = -1 THEN NoMatch
        ELSE IF ~StartsWithAt(rest, <<"]", ":">>, close) THEN NoMatch
        ELSE LET after == From(rest, close + 2)
                 ws == Span(after, {" ", "\n", "\t", "\r"})
                 url == From(after, ws)
                 n == IF Find(url, <<" ">>, 0) = -1 THEN Len(url)
                      ELSE Find(url, <<" ">>, 0)
             IN  [matched |-> TRUE,
                  g2 |-> Slice(rest, 1, close),
                  g3 |-> Slice(url, 0, n),
                  g4 |-> From(url, n)]

\* dict.setdefault(key, value): a key the dictionary holds keeps its value
DictSetDefault(d, key, value) ==
    [k \in DOMAIN d \cup {key} |-> IF k \in DOMAIN d THEN d[k] ELSE value]

\* dict[key] = value
DictSet(d, key, value) ==
    [k \in DOMAIN d \cup {key} |-> IF k = key THEN value ELSE d[k]]

EmptyDict == [k \in {} |-> <<>>]

IsQuotedTitle(t) ==
    /\ Len(t) >= 2
    /\ \/ At(t, 0) = "\"" /\ At(t, Len(t) - 1) = "\""
       \/ At(t, 0) = "'" /\ At(t, Len(t) - 1) = "'"
       \/ At(t, 0) = "(" /\ At(t, Len(t) - 1) = ")"

\* One iteration of "for line in lines": st = [new_text, references]
Reference_step(st, line) ==
    With(ReferenceDef_match(line), LAMBDA m :
    IF ~m.matched THEN [st EXCEPT !.new_text = Append(@, line)]
    ELSE With(Strip(m.g4), LAMBDA t :
         IF t = <<>>
         THEN [st EXCEPT !.references =
                             DictSet(@, Lower(Strip(m.g2)), [href |-> m.g3, title |-> t])]
         ELSE IF IsQuotedTitle(t)
         THEN [st EXCEPT !.references =
                             DictSet(@, Lower(Strip(m.g2)),
                                     [href |-> m.g3, title |-> Slice(t, 1, Len(t) - 1)])]
         ELSE [st EXCEPT !.new_text = Append(@, line)]))

RECURSIVE Reference_loop(_, _)
Reference_loop(st, lines) ==
    IF lines = <<>> THEN st ELSE Reference_loop(Reference_step(st, Head(lines)), Tail(lines))

\* ReferencePreprocessor.run(lines) with self.references = references:
\* [new_text, references]
\* a reference preprocessor that records nothing
ReferencePreprocessor_idle(lines, references) ==
    [new_text |-> lines, references |-> references]

ReferencePreprocessor_run(lines, references) ==
    Reference_loop([new_text |-> <<>>, references |-> references], lines)

(***************************************************************************)
(* ElementTree nodes.  An absent text or tail (None) and an empty one are  *)
(* both <<>>: the code only ever tests them for truth.                     *)
(***************************************************************************)
Element(tag) ==
    [tag |-> tag, text |-> <<>>, tail |-> <<>>, attrib |-> EmptyDict,
     children |-> <<>>]

\* etree.SubElement(parent, tag) followed by what the caller does to the new
\* child before anything else is appended: parent with child appended
AppendChild(parent, child) == [parent EXCEPT !.children = Append(@, child)]

(***************************************************************************)
(* CorePatterns: RE.regExp[name].match(line), each anchored ^...$          *)
(***************************************************************************)

\* 'ul': [ ]{0,3}[*+-]\s+(.*)
Match_ul(line) ==
    LET n == Span(line, {" "})
        after == From(line, n + 1)
    IN  IF n <= 3 /\ n < Len(line) /\ At(line, n) \in {"*", "+", "-"}
           /\ Span(after, WhiteSpace) >= 1
        THEN [matched |-> TRUE, g1 |-> From(after, Span(after, WhiteSpace))]
        ELSE NoMatch

\* 'ol': [ ]{0,3}[\d]*\.\s+(.*)
Match_ol(line) ==
    LET n == Span(line, {" "})
        d == Span(From(line, n), Digits)
        after == From(line, n + d + 1)
    IN  IF n <= 3 /\ n + d < Len(line) /\ At(line, n + d) = "."
           /\ Span(after, WhiteSpace) >= 1
        THEN [matched |-> TRUE, g1 |-> From(after, Span(after, WhiteSpace))]
        ELSE NoMatch

\* 'quoted': [ ]{0,2}> ?(.*)
Match_quoted(line) ==
    LET n == Span(line, {" "})
        after == From(line, n + 1)
    IN  IF n <= 2 /\ n < Len(line) /\ At(line, n) = ">"
        THEN [matched |-> TRUE,
              g1 |-> IF StartsWith(after, <<" ">>) THEN From(after, 1) ELSE after]
        ELSE NoMatch

\* 'tabbed': ((\t)|(    ))(.*)
Match_tabbed(line) ==
    IF StartsWith(line, <<"\t">>) THEN [matched |-> TRUE, g4 |-> From(line, 1)]
    ELSE IF StartsWith(line, <<" ", " ", " ", " ">>)
    THEN [matched |-> TRUE, g4 |-> From(line, TAB_LENGTH)]
    ELSE NoMatch

\* 'isline3': (\_*) : also the empty line, and a line of one or two "_"
Match_isline3(line) == AllOf(line, "_")

\* 'header': (#{1,6})[ \t]*(.*?)[ \t]*(#*) on a line that starts with "#"
Match_header(line) ==
    LET h == Min(Span(line, {"#"}), 6)
        r0 == From(line, h)
        r1 == From(r0, Span(r0, {" ", "\t"}))
        r2 == Slice(r1, 0, Len(r1) - RSpan(r1, {"#"}))
        r3 == Slice(r2, 0, Len(r2) - RSpan(r2, {" ", "\t"}))
    IN  IF h >= 1 THEN [matched |-> TRUE, g1 |-> h, g2 |-> r3] ELSE NoMatch

(***************************************************************************)
(* BlockGuru                                                               *)
(***************************************************************************)
IsBlank(line) == Strip(line) = <<>>

\* the next line at index >= i that is not blank, as <<line>>, or <<>>
RECURSIVE NextNonBlank(_, _)
NextNonBlank(lines, i) ==
    IF i >= Len(lines) THEN <<>>
    ELSE IF ~IsBlank(At(lines, i)) THEN <<At(lines, i)>>
    ELSE NextNonBlank(lines, i + 1)

\* detabbed_fn(line): the text after the indent, <<>> when there is no match
\* (None) or nothing follows the indent: the caller tests it for truth
detabbed_fn(line) == IF Match_tabbed(line).matched THEN Match_tabbed(line).g4 ELSE <<>>

\* _findHead(lines, detabbed_fn, allowBlank=1), the loop at line k with the
\* items found and the counter i: [items, rest]
RECURSIVE findHead_loop(_, _, _, _)
findHead_loop(lines, k, items, i) ==
    IF k >= Len(lines) THEN [items |-> items, rest |-> From(lines, i + 1)]
    ELSE LET line == At(lines, k)
         IN  IF IsBlank(line)
             THEN LET nxt == NextNonBlank(lines, i + 1)
                  IN  IF nxt = <<>> THEN [items |-> items, rest |-> From(lines, i + 1)]
                      ELSE IF detabbed_fn(nxt[1]) # <<>>
                      THEN findHead_loop(lines, k + 1, Append(items, <<>>), i + 1)
                      ELSE [items |-> items, rest |-> From(lines, i + 1)]
             ELSE IF detabbed_fn(line) # <<>>
             THEN findHead_loop(lines, k + 1, Append(items, detabbed_fn(line)), i + 1)
             ELSE [items |-> items, rest |-> From(lines, i)]

\* BlockGuru.detectTabbed(lines)
detectTabbed(lines) == findHead_loop(lines, 0, <<>>, 0)

(***************************************************************************)
(* The block parser: Markdown._processSection and its handlers.  Each      *)
(* handler returns the parent element as the call leaves it.               *)
(***************************************************************************)
\* _linesUntil(lines, condition): [head, rest]
linesUntil(lines, condition(_)) ==
    LET hits == {i \in 0..(Len(lines) - 1) : condition(At(lines, i))}
        i == IF hits = {} THEN Len(lines) ELSE CHOOSE a \in hits : \A b \in hits : a <= b
    IN  [head |-> Slice(lines, 0, i), rest |-> From(lines, i)]

\* the condition of the inList branch of _processSection
IsListOrBlank(line) == Match_ul(line).matched \/ Match_ol(line).matched \/ IsBlank(line)

\* the condition of the plain-block branch of _processSection
IsBlankOrQuote(line) == IsBlank(line) \/ At(line, 0) = ">"

\* "if lines and not lines[0].strip(): lines = lines[1:]"
\* only an empty first line is dropped, a whitespace-only one stays
SkipEmpty(lines) == IF lines # <<>> /\ lines[1] = <<>> THEN Tail(lines) ELSE lines

SkipBlank(lines) == IF lines # <<>> /\ IsBlank(lines[1]) THEN Tail(lines) ELSE lines

HeaderTag(level) == <<"h1", "h2", "h3", "h4", "h5", "h6">>[level]

\* _processHR(parentElem)
processHR(parentElem) == AppendChild(parentElem, Element("hr"))

\* _processHeader(parentElem, paragraph)
processHeader(parentElem, paragraph) ==
    LET m == Match_header(paragraph[1])
    IN  IF m.matched
        THEN AppendChild(parentElem, [Element(HeaderTag(m.g1)) EXCEPT !.text = Strip(m.g2)])
        ELSE parentElem

\* an el.text = ... that puts a placeholder where the text goes
ElSetPlaceholder(parentElem, at, text) ==
    IF at = 0 THEN [parentElem EXCEPT !.text = INLINE_PLACEHOLDER_PREFIX \o text]
    ELSE [parentElem EXCEPT !.children[at].text = INLINE_PLACEHOLDER_PREFIX \o text]

\* In _processParagraph el is parentElem itself (at = 0) or its child number at.
ElSetText(parentElem, at, text) ==
    IF at = 0 THEN [parentElem EXCEPT !.text = text]
    ELSE [parentElem EXCEPT !.children[at].text = text]

ElAppend(parentElem, at, child) ==
    IF at = 0 THEN AppendChild(parentElem, child)
    ELSE [parentElem EXCEPT !.children[at].children = Append(@, child)]

\* the loop "for line in paragraph" of _processParagraph: [parent, dump]
RECURSIVE Paragraph_loop(_, _, _, _)
Paragraph_loop(parentElem, at, dump, paragraph) ==
    IF paragraph = <<>> THEN [parent |-> parentElem, dump |-> dump]
    ELSE LET line == Head(paragraph)
         IN  IF Match_isline3(line)
             THEN Paragraph_loop(
                      ElAppend(ElSetText(parentElem, at, Join(dump, <<"\n">>)),
                               at, Element("hr")),
                      at, <<>>, Tail(paragraph))
             ELSE IF StartsWith(line, <<"#">>)
             THEN Paragraph_loop(
                      processHeader(ElSetText(parentElem, at, Join(dump, <<"\n">>)),
                                    <<line>>),
                      at, <<>>, Tail(paragraph))
             ELSE Paragraph_loop(parentElem, at, Append(dump, line), Tail(paragraph))

\* a choice of el that does not look at looseList
ParagraphOntoItemAlways(parentElem, looseList) ==
    parentElem.tag = "li" /\ parentElem.children = <<>>

\* the choice of el in _processParagraph: TRUE when the text goes onto the
\* list item itself
ParagraphOntoItem(parentElem, looseList) ==
    parentElem.tag = "li" /\ ~(looseList # 0 \/ parentElem.children # <<>>)

\* _processParagraph(parentElem, paragraph, inList, looseList)
processParagraph(parentElem, paragraph, inList, looseList) ==
    With(IF ParagraphOntoItem(parentElem, looseList) THEN 0
         ELSE Len(parentElem.children) + 1,
         LAMBDA at :
    With(Paragraph_loop(IF at = 0 THEN parentElem
                        ELSE AppendChild(parentElem, Element("p")),
                        at, <<>>, paragraph),
         LAMBDA r :
    IF r.dump # <<>> THEN ElSetText(r.parent, at, Join(r.dump, <<"\n">>))
    ELSE r.parent))

\* a test for an item of either kind
Match_anylist(listexpr, line) == Match_ul(line).matched \/ Match_ol(line).matched

Match_list(listexpr, line) ==
    IF listexpr = "ul" THEN Match_ul(line).matched ELSE Match_ol(line).matched

AppendToLast(items, line) == [items EXCEPT ![Len(items)] = Append(@, line)]

\* the loop "for line in lines" of _processList at line k:
\* [items, i, looseList]
RECURSIVE List_loop(_, _, _, _, _, _)
List_loop(lines, k, items, i, looseList, listexpr) ==
    IF k >= Len(lines) THEN [items |-> items, i |-> i + 1, looseList |-> looseList]
    ELSE LET line == At(lines, k)
         IN  IF IsBlank(line)
             THEN LET nxt == NextNonBlank(lines, i + 1)
                  IN  IF nxt = <<>>
                      THEN [items |-> items, i |-> i + 1, looseList |-> looseList]
                      ELSE IF Match_list(listexpr, nxt[1]) \/ Match_tabbed(nxt[1]).matched
                      THEN List_loop(lines, k + 1, AppendToLast(items, Strip(line)),
                                     i + 1, 1, listexpr)
                      ELSE [items |-> items, i |-> i + 1, looseList |-> looseList]
             ELSE IF Match_ul(line).matched
             THEN List_loop(lines, k + 1, Append(items, <<Match_ul(line).g1>>),
                            i + 1, looseList, listexpr)
             ELSE IF Match_ol(line).matched
             THEN List_loop(lines, k + 1, Append(items, <<Match_ol(line).g1>>),
                            i + 1, looseList, listexpr)
             ELSE IF Match_tabbed(line).matched
             THEN List_loop(lines, k + 1, AppendToLast(items, Match_tabbed(line).g4),
                            i + 1, looseList, listexpr)
             ELSE List_loop(lines, k + 1, AppendToLast(items, line),
                            i + 1, looseList, listexpr)

\* a quote loop that lets any number of blank lines through
RECURSIVE Quote_loop_blanks(_, _, _, _)
Quote_loop_blanks(lines, dequoted, i, blank_line) ==
    IF i >= Len(lines) THEN [dequoted |-> dequoted, i |-> i]
    ELSE IF Match_quoted(At(lines, i)).matched
    THEN Quote_loop_blanks(lines, Append(dequoted, Match_quoted(At(lines, i)).g1),
                           i + 1, FALSE)
    ELSE IF ~blank_line \/ Strip(At(lines, i)) = <<>>
    THEN Quote_loop_blanks(lines, Append(dequoted, At(lines, i)), i + 1,
                           Strip(At(lines, i)) = <<>>)
    ELSE [dequoted |-> dequoted, i |-> i]

\* the loop "for line in lines" of _processQuote: [dequoted, i]
RECURSIVE Quote_loop(_, _, _, _)
Quote_loop(lines, dequoted, i, blank_line) ==
    IF i >= Len(lines) THEN [dequoted |-> dequoted, i |-> i]
    ELSE With(Match_quoted(At(lines, i)), LAMBDA m :
         IF m.matched THEN Quote_loop(lines, Append(dequoted, m.g1), i + 1, FALSE)
         ELSE IF ~blank_line /\ Strip(At(lines, i)) # <<>>
         THEN Quote_loop(lines, Append(dequoted, At(lines, i)), i + 1, blank_line)
         ELSE IF ~blank_line /\ Strip(At(lines, i)) = <<>>
         THEN Quote_loop(lines, Append(dequoted, At(lines, i)), i + 1, TRUE)
         ELSE [dequoted |-> dequoted, i |-> i])

RECURSIVE processSection(_, _, _, _)
RECURSIVE processList(_, _, _, _, _)
RECURSIVE processItems(_, _, _, _)
RECURSIVE processQuote(_, _, _)
RECURSIVE processCodeBlock(_, _, _)

\* _processSection(parent_elem, lines, inList, looseList)
processSection(parent_elem, lines, inList, looseList) ==
    IF lines = <<>> THEN parent_elem
    ELSE IF lines[1] = <<>>
    THEN processSection(parent_elem, Tail(lines), inList, looseList)
    ELSE IF Match_ul(lines[1]).matched
    THEN processList(parent_elem, lines, inList, "ul", "ul")
    ELSE IF Match_ol(lines[1]).matched
    THEN processList(parent_elem, lines, inList, "ol", "ol")
    ELSE IF Match_quoted(lines[1]).matched
    THEN processQuote(parent_elem, lines, inList)
    ELSE IF Match_tabbed(lines[1]).matched
    THEN processCodeBlock(parent_elem, lines, inList)
    ELSE IF inList # 0
    THEN With(linesUntil(lines, IsListOrBlank), LAMBDA sp :
              processSection(
                  processSection(parent_elem, sp.head, inList - 1, looseList),
                  SkipBlank(sp.rest), inList - 1, looseList))
    ELSE With(linesUntil(lines, IsBlankOrQuote), LAMBDA sp :
              processSection(
                  IF sp.head = <<>> THEN parent_elem
                  ELSE IF StartsWith(sp.head[1], <<"#">>)
                  THEN processHeader(parent_elem, sp.head)
                  ELSE IF Match_isline3(sp.head[1]) THEN processHR(parent_elem)
                  ELSE processParagraph(parent_elem, sp.head, inList, looseList),
                  IF /\ sp.head # <<>>
                     /\ ~StartsWith(sp.head[1], <<"#">>)
                     /\ Match_isline3(sp.head[1])
                  THEN SkipBlank(Tail(sp.head) \o sp.rest)
                  ELSE SkipBlank(sp.rest),
                  inList, looseList))

\* "for item in items" of _processList: the list element with its items added
processItems(ul, items, inList, looseList) ==
    IF items = <<>> THEN ul
    ELSE processItems(
             AppendChild(ul, processSection(Element("li"), Head(items),
                                            inList + 1, looseList)),
             Tail(items), inList, looseList)

\* _processList(parentElem, lines, inList, listexpr, tag)
processList(parentElem, lines, inList, listexpr, tag) ==
    With(List_loop(lines, 0, <<>>, 0, 0, listexpr), LAMBDA r :
         processSection(
             AppendChild(parentElem,
                         processItems(Element(tag), r.items, inList, r.looseList)),
             From(lines, r.i), inList, 0))

\* _processQuote(parentElem, lines, inList)
processQuote(parentElem, lines, inList) ==
    With(Quote_loop(lines, <<>>, 0, FALSE), LAMBDA r :
         processSection(
             AppendChild(parentElem,
                         processSection(Element("blockquote"), r.dequoted, inList, 0)),
             From(lines, r.i), inList, 0))

\* _processCodeBlock(parentElem, lines, inList)
processCodeBlock(parentElem, lines, inList) ==
    With(detectTabbed(lines), LAMBDA r :
         processSection(
             AppendChild(parentElem,
                         AppendChild(Element("pre"),
                                     [Element("code") EXCEPT
                                         !.text = RStrip(Join(r.items, <<"\n">>))
                                                  \o <<"\n">>])),
             r.rest, inList, 0))

(***************************************************************************)
(* Markdown.markdownToTree and Markdown._transform, phase by phase         *)
(***************************************************************************)
\* the column after the text, entered at column col: a line end is column 0
ColumnAfter(text, col) ==
    IF \A i \in 1..Len(text) : text[i] \notin {"\n", "\r"} THEN col + Len(text)
    ELSE Len(text) - Greatest({i \in 1..Len(text) : text[i] \in {"\n", "\r"}})

RECURSIVE ExpandTabsFrom(_, _)
\* a tab at column col, then the text s after it
ExpandTab(s, col) ==
    [k \in 1..(TAB_LENGTH - (col % TAB_LENGTH)) |-> " "]
    \o ExpandTabsFrom(s, col + TAB_LENGTH - (col % TAB_LENGTH))

\* unicode.expandtabs(TAB_LENGTH), entered at column col: the text up to the
\* first tab, the tab, and the rest
ExpandTabsFrom(s, col) ==
    IF Find(s, <<"\t">>, 0) = -1 THEN s
    ELSE Slice(s, 0, Find(s, <<"\t">>, 0))
         \o ExpandTab(From(s, Find(s, <<"\t">>, 0) + 1),
                      ColumnAfter(Slice(s, 0, Find(s, <<"\t">>, 0)), col))

\* a fixup that leaves the reserved code points in
FixupSourceKeeping(source) ==
    ExpandTabsFrom(Replace(Replace(source, <<"\r", "\n">>, <<"\n">>), <<"\r">>, <<"\n">>)
                   \o <<"\n", "\n">>, 0)

\* "Fixup the source text" of markdownToTree
FixupSource(source) ==
    With(Replace(source, <<STX>>, <<>>), LAMBDA s1 :
    With(Replace(s1, <<ETX>>, <<>>), LAMBDA s2 :
    With(Replace(s2, <<"\r", "\n">>, <<"\n">>), LAMBDA s3 :
    With(Replace(s3, <<"\r">>, <<"\n">>), LAMBDA s4 :
         ExpandTabsFrom(s4 \o <<"\n", "\n">>, 0)))))

\* "for prep in self.preprocessors" of _transform on self.lines, with
\* REFERENCE_PREPROCESSOR.references = references: [err, lines, references]
RunPreprocessors(lines, references) ==
    With(HeaderPreprocessor_run(lines), LAMBDA h :
    IF h.err # "" THEN [err |-> h.err, lines |-> lines, references |-> references]
    ELSE With(LinePreprocessor_run(h.val), LAMBDA l :
         With(ReferencePreprocessor_run(l, references), LAMBDA r :
              [err |-> "", lines |-> r.new_text, references |-> r.references])))

\* the loop "for line in self.lines" of _transform with its buffer,
\* and the final _processSection: the root element
RECURSIVE Transform_loop(_, _, _)
Transform_loop(root, buffer, lines) ==
    IF lines = <<>> THEN processSection(root, buffer, 0, 0)
    ELSE IF StartsWith(Head(lines), <<"#">>)
    THEN Transform_loop(processSection(root, buffer, 0, 0), <<Head(lines)>>, Tail(lines))
    ELSE Transform_loop(root, Append(buffer, Head(lines)), Tail(lines))

BuildTree(lines) == Transform_loop(Element("span"), <<>>, lines)

(***************************************************************************)
(* Regular expressions: the patterns of the module are written as item     *)
(* sequences and matched as Python's re does, by backtracking in priority  *)
(* order (re.compile(...).match).  A match result carries the end position *)
(* and the (start, end) span of every group, (-1, -1) for a group that did *)
(* not take part.                                                          *)
(***************************************************************************)
In(cs) == [op |-> "in", cs |-> cs]
NotIn(cs) == [op |-> "notin", cs |-> cs]
\* "." under re.DOTALL
AnyChar == NotIn({})
Grp(n, body) == [op |-> "grp", n |-> n, body |-> body]
Alt(a, b) == [op |-> "alt", a |-> a, b |-> b]
Star(body) == [op |-> "star", body |-> body]
Lazy(body) == [op |-> "lazy", body |-> body]
BackRef(n) == [op |-> "ref", n |-> n]
NotBehind(item) == [op |-> "nbehind", item |-> item]
NotAhead(item) == [op |-> "nahead", item |-> item]
End == [op |-> "end"]
\* a literal text
Lit(text) == [i \in 1..Len(text) |-> In({text[i]})]
\* x? (greedy)
Opt(body) == Alt(body, <<>>)

Letters ==
    {"a", "b", "c", "d", "e", "f", "g", "h", "i", "j", "k", "l", "m", "n", "o",
     "p", "q", "r", "s", "t", "u", "v", "w", "x", "y", "z",
     "A", "B", "C", "D", "E", "F", "G", "H", "I", "J", "K", "L", "M", "N", "O",
     "P", "Q", "R", "S", "T", "U", "V", "W", "X", "Y", "Z"}

\* \s
SpaceChars == {" ", "\n", "\t", "\r"}

ItemAccepts(item, c) ==
    IF item.op = "in" THEN c \in item.cs ELSE c \notin item.cs

NoGroups(n) == [i \in 1..n |-> [s |-> -1, e |-> -1]]

MatchFail == [ok |-> FALSE, end |-> -1, groups |-> <<>>]

\* how many characters from pos on the item accepts in a row
RunLength(item, s, pos) ==
    LET stops == {i \in (pos + 1)..Len(s) : ~ItemAccepts(item, s[i])}
        stop == IF stops = {} THEN Len(s) + 1
                ELSE CHOOSE i \in stops : \A j \in stops : i <= j
    IN  stop - 1 - pos

IsCharItem(body) == Len(body) = 1 /\ body[1].op \in {"in", "notin"}

\* how many single-character items the items start with
CharItems(items) ==
    LET others == {i \in 1..Len(items) : items[i].op \notin {"in", "notin"}}
    IN  (IF others = {} THEN Len(items) + 1
         ELSE CHOOSE i \in others : \A j \in others : i <= j) - 1

RECURSIVE re_run(_, _, _, _)
RECURSIVE re_run_from(_, _, _, _, _)
\* the items after a repeated single-character item that took k characters,
\* no match when no count would do
re_run_from(items, s, pos, groups, k) ==
    IF k < 0 THEN MatchFail ELSE re_run(items, s, pos + k, groups)

\* the items from position pos of s on: the first way to match them, in the
\* order a backtracking matcher tries the ways.  A run of single-character
\* items is matched in one step; a repeated single-character item takes the
\* first count, from the longest run down (greedy) or from none up (lazy),
\* with which the rest matches.
re_run(items, s, pos, groups) ==
    CASE items = <<>> -> [ok |-> TRUE, end |-> pos, groups |-> groups]
      [] items[1].op \in {"in", "notin"} ->
           IF /\ pos + CharItems(items) <= Len(s)
              /\ \A k \in 1..CharItems(items) : ItemAccepts(items[k], s[pos + k])
           THEN re_run(SubSeq(items, CharItems(items) + 1, Len(items)), s,
                       pos + CharItems(items), groups)
           ELSE MatchFail
      [] items[1].op = "grp" ->
           re_run(items[1].body \o <<[op |-> "close", n |-> items[1].n, s |-> pos]>>
                  \o Tail(items), s, pos, groups)
      [] items[1].op = "close" ->
           re_run(Tail(items), s, pos,
                  [groups EXCEPT ![items[1].n] = [s |-> items[1].s, e |-> pos]])
      [] items[1].op = "alt" ->
           IF re_run(items[1].a \o Tail(items), s, pos, groups).ok
           THEN re_run(items[1].a \o Tail(items), s, pos, groups)
           ELSE re_run(items[1].b \o Tail(items), s, pos, groups)
      [] items[1].op = "star" /\ IsCharItem(items[1].body) ->
           re_run_from(Tail(items), s, pos, groups,
                       Greatest({k \in 0..RunLength(items[1].body[1], s, pos) :
                                    re_run(Tail(items), s, pos + k, groups).ok}))
      [] items[1].op = "lazy" /\ IsCharItem(items[1].body) ->
           re_run_from(Tail(items), s, pos, groups,
                       Least({k \in 0..RunLength(items[1].body[1], s, pos) :
                                 re_run(Tail(items), s, pos + k, groups).ok}))
      [] items[1].op = "star" /\ ~IsCharItem(items[1].body) ->
           IF re_run(items[1].body \o items, s, pos, groups).ok
           THEN re_run(items[1].body \o items, s, pos, groups)
           ELSE re_run(Tail(items), s, pos, groups)
      [] items[1].op = "lazy" /\ ~IsCharItem(items[1].body) ->
           IF re_run(Tail(items), s, pos, groups).ok
           THEN re_run(Tail(items), s, pos, groups)
           ELSE re_run(items[1].body \o items, s, pos, groups)
      [] items[1].op = "ref" ->
           IF groups[items[1].n].s >= 0
              /\ StartsWithAt(s, SubSeq(s, groups[items[1].n].s + 1, groups[items[1].n].e),
                              pos)
           THEN re_run(Tail(items), s,
                       pos + groups[items[1].n].e - groups[items[1].n].s, groups)
           ELSE MatchFail
      [] items[1].op = "nbehind" ->
           IF pos > 0 /\ ItemAccepts(items[1].item, s[pos])
           THEN MatchFail ELSE re_run(Tail(items), s, pos, groups)
      [] items[1].op = "nahead" ->
           IF pos < Len(s) /\ ItemAccepts(items[1].item, s[pos + 1])
           THEN MatchFail ELSE re_run(Tail(items), s, pos, groups)
      [] items[1].op = "end" ->
           IF pos = Len(s) \/ (pos = Len(s) - 1 /\ s[Len(s)] = "\n")
           THEN re_run(Tail(items), s, pos, groups) ELSE MatchFail

\* regex.match(s) for a regex with ngroups groups
re_match(regex, ngroups, s) == re_run(regex, s, 0, NoGroups(ngroups))

\* match.group(n): the text of group n, <<>> for None
group(m, s, n) ==
    IF m.groups[n].s < 0 THEN <<>> ELSE SubSeq(s, m.groups[n].s + 1, m.groups[n].e)

(***************************************************************************)
(* Inline patterns: the regular expressions, with the group numbers they   *)
(* have once compiled as "^(.*?)%s(.*?)$"                                  *)
(***************************************************************************)
NOBRACKET == Star(<<NotIn({"]", "["})>>)

\* the nested groups "(\[ ... \])*" of BRK, group g at depth d of 6
RECURSIVE BRK_nested(_, _)
BRK_nested(g, d) ==
    Star(<<Grp(g, <<In({"["}), NOBRACKET>>
                  \o (IF d < 6 THEN <<BRK_nested(g + 1, d + 1), NOBRACKET>> ELSE <<>>)
                  \o <<In({"]"})>>)>>)

\* groups 2 (the bracketed text) to 8
BRK == <<In({"["}), Grp(2, <<NOBRACKET, BRK_nested(3, 1), NOBRACKET>>), In({"]"})>>

NOIMG == NotBehind(In({"!"}))

BACKTICK_RE ==
    <<NotBehind(In({"\\"})), Grp(2, <<In({TICK}), Star(<<In({TICK})>>)>>),
      Grp(3, <<AnyChar, Lazy(<<AnyChar>>)>>), NotBehind(In({TICK})), BackRef(2),
      NotAhead(In({TICK}))>>

ESCAPE_RE == <<In({"\\"}), Grp(2, <<AnyChar>>)>>

EMPHASIS_RE == <<Grp(2, <<In({"*"})>>), Grp(3, <<Star(<<NotIn({"*"})>>)>>), BackRef(2)>>

STRONG_RE ==
    <<Grp(2, <<Alt(Lit(<<"*", "*">>), Lit(<<"_", "_">>))>>),
      Grp(3, <<Lazy(<<AnyChar>>)>>), BackRef(2)>>

STRONG_EM_RE ==
    <<Grp(2, <<Alt(Lit(<<"*", "*", "*">>), Lit(<<"_", "_", "_">>))>>),
      Grp(3, <<Lazy(<<AnyChar>>)>>), BackRef(2)>>

\* SMART_EMPHASIS is True
EMPHASIS_2_RE ==
    <<NotBehind(NotIn(SpaceChars)), Grp(2, <<In({"_"})>>),
      Grp(3, <<NotIn(SpaceChars), Lazy(<<AnyChar>>)>>), BackRef(2)>>

LINK_RE ==
    <<NOIMG>> \o BRK \o
    <<In({"("}), Star(<<In(SpaceChars)>>),
      Grp(9, <<Alt(<<In({"<"}), Lazy(<<AnyChar>>), In({">"})>>,
                   <<Lazy(<<Grp(10, <<Alt(<<In({"("}), Lazy(<<AnyChar>>), In({")"})>>,
                                          <<NotIn({"(", ")"})>>)>>)>>)>>)>>),
      Star(<<In(SpaceChars)>>),
      Opt(<<Grp(11, <<Grp(12, <<In({"'", "\""})>>), Grp(13, <<Star(<<AnyChar>>)>>),
                      BackRef(12)>>)>>),
      In({")"})>>

IMAGE_LINK_RE ==
    <<In({"!"})>> \o BRK \o
    <<Star(<<In(SpaceChars)>>), In({"("}),
      Grp(9, <<Alt(<<In({"<"}), Lazy(<<AnyChar>>), In({">"})>>,
                   <<Grp(10, <<Star(<<NotIn({")"})>>)>>)>>)>>),
      In({")"})>>

REFERENCE_RE ==
    <<NOIMG>> \o BRK \o
    <<Star(<<In(SpaceChars)>>), In({"["}), Grp(9, <<Star(<<NotIn({"]"})>>)>>), In({"]"})>>

IMAGE_REFERENCE_RE ==
    <<In({"!"})>> \o BRK \o
    <<Star(<<In(SpaceChars)>>), In({"["}), Grp(9, <<Star(<<NotIn({"]"})>>)>>), In({"]"})>>

NOT_STRONG_RE == <<Grp(2, Lit(<<" ", "*", " ">>))>>

AUTOLINK_RE ==
    <<In({"<"}),
      Grp(2, <<Alt(<<In({"f"})>>, Lit(<<"h", "t">>))>> \o Lit(<<"t", "p">>)
             \o <<Opt(<<In({"s"})>>)>> \o Lit(<<":", "/", "/">>)
             \o <<Star(<<NotIn({">"})>>)>>),
      In({">"})>>

AUTOMAIL_RE ==
    <<In({"<"}),
      Grp(2, <<Star(<<NotIn({">", " ", "!"})>>), In({"@"}), Star(<<NotIn({">", " "})>>)>>),
      In({">"})>>

HTML_RE ==
    <<Grp(2, <<In({"<"}),
               Grp(3, <<Alt(<<In(Letters \cup {"/"}), Lazy(<<NotIn({">"})>>)>>,
                            Lit(<<"!", "-", "-">>) \o <<Lazy(<<AnyChar>>)>>
                            \o Lit(<<"-", "-">>))>>),
               In({">"})>>)>>

ENTITY_RE ==
    <<Grp(2, <<In({"&"}), Star(<<In({"#"} \cup Letters \cup Digits)>>), In({";"})>>)>>

LINE_BREAK_RE == Lit(<<" ", " ", "\n">>)

LINE_BREAK_2_RE == Lit(<<" ", " ">>) \o <<End>>

\* Pattern.__init__: re.compile("^(.*?)%s(.*?)$" % pattern, re.DOTALL), the
\* pattern object with its class name and the number of groups of the regex
Pattern(type, pattern, ngroups, tag) ==
    [type |-> type, tag |-> tag, ngroups |-> ngroups,
     compiled_re |-> <<Grp(1, <<Lazy(<<AnyChar>>)>>)>> \o pattern
                     \o <<Grp(ngroups, <<Lazy(<<AnyChar>>)>>), End>>]

ESCAPE_PATTERN == Pattern("SimpleTextPattern", ESCAPE_RE, 3, "")
NOT_STRONG_PATTERN == Pattern("SimpleTextPattern", NOT_STRONG_RE, 3, "")
BACKTICK_PATTERN == Pattern("BacktickPattern", BACKTICK_RE, 4, "code")
STRONG_PATTERN == Pattern("SimpleTagPattern", STRONG_RE, 4, "strong")
EMPHASIS_PATTERN == Pattern("SimpleTagPattern", EMPHASIS_RE, 4, "em")
EMPHASIS_PATTERN_2 == Pattern("SimpleTagPattern", EMPHASIS_2_RE, 4, "em")
\* the tag 'strong,em', as self.tag.split(",") gives it
STRONG_EM_PATTERN == Pattern("DoubleTagPattern", STRONG_EM_RE, 4, <<"strong", "em">>)
LINE_BREAK_PATTERN == Pattern("SubstituteTagPattern", LINE_BREAK_RE, 2, "br ")
LINE_BREAK_PATTERN_2 == Pattern("SubstituteTagPattern", LINE_BREAK_2_RE, 2, "br ")
LINK_PATTERN == Pattern("LinkPattern", LINK_RE, 14, "")
IMAGE_LINK_PATTERN == Pattern("ImagePattern", IMAGE_LINK_RE, 11, "")
IMAGE_REFERENCE_PATTERN == Pattern("ImageReferencePattern", IMAGE_REFERENCE_RE, 10, "")
REFERENCE_PATTERN == Pattern("ReferencePattern", REFERENCE_RE, 10, "")
HTML_PATTERN == Pattern("HtmlPattern", HTML_RE, 4, "")
ENTITY_PATTERN == Pattern("HtmlPattern", ENTITY_RE, 3, "")
AUTOLINK_PATTERN == Pattern("AutolinkPattern", AUTOLINK_RE, 3, "")
AUTOMAIL_PATTERN == Pattern("AutomailPattern", AUTOMAIL_RE, 3, "")

(***************************************************************************)
(* Characters by code point (ord), for "%d" % ord(letter) and lower()      *)
(***************************************************************************)
\* the characters U+0020 .. U+007E in order
AsciiChars ==
    <<" ", "!", "\"", "#", "$", "%", "&", "'", "(", ")", "*", "+", ",", "-",
      ".", "/", "0", "1", "2", "3", "4", "5", "6", "7", "8", "9", ":", ";",
      "<", "=", ">", "?", "@", "A", "B", "C", "D", "E", "F", "G", "H", "I",
      "J", "K", "L", "M", "N", "O", "P", "Q", "R", "S", "T", "U", "V", "W",
      "X", "Y", "Z", "[", "\\", "]", "^", "_", TICK, "a", "b", "c", "d", "e",
      "f", "g", "h", "i", "j", "k", "l", "m", "n", "o", "p", "q", "r", "s",
      "t", "u", "v", "w", "x", "y", "z", "{", "|", "}", "~">>

\* ord(c) of a character of AsciiChars, of a newline, STX or ETX
ord(c) ==
    CASE c = "\n" -> 10 [] c = "\t" -> 9 [] c = "\r" -> 13 [] c = STX -> 2 [] c = ETX -> 3
      [] OTHER -> 31 + (CHOOSE i \in 1..Len(AsciiChars) : AsciiChars[i] = c)

\* "%04d" % n
Fmt4(n) ==
    LET d == Decimal(n)
    IN  [i \in 1..(4 - Len(d)) |-> "0"] \o d

(***************************************************************************)
(* urlparse / urlunparse of the standard library, as sanatize_url uses     *)
(* them                                                                    *)
(***************************************************************************)
uses_netloc ==
    {<<"f", "t", "p">>, <<"h", "t", "t", "p">>,
     <<"g", "o", "p", "h", "e", "r">>, <<"n", "n", "t", "p">>,
     <<"t", "e", "l", "n", "e", "t">>, <<"i", "m", "a", "p">>,
     <<"w", "a", "i", "s">>, <<"f", "i", "l", "e">>, <<"m", "m", "s">>,
     <<"h", "t", "t", "p", "s">>, <<"s", "h", "t", "t", "p">>,
     <<"s", "n", "e", "w", "s">>, <<"p", "r", "o", "s", "p", "e", "r", "o">>,
     <<"r", "t", "s", "p">>, <<"r", "t", "s", "p", "u">>,
     <<"r", "s", "y", "n", "c">>, <<>>, <<"s", "v", "n">>,
     <<"s", "v", "n", "+", "s", "s", "h">>, <<"s", "f", "t", "p">>}

uses_params ==
    {<<"f", "t", "p">>, <<"h", "d", "l">>,
     <<"p", "r", "o", "s", "p", "e", "r", "o">>, <<"h", "t", "t", "p">>,
     <<"i", "m", "a", "p">>, <<"h", "t", "t", "p", "s">>,
     <<"s", "h", "t", "t", "p">>, <<"r", "t", "s", "p">>,
     <<"r", "t", "s", "p", "u">>, <<"s", "i", "p">>, <<"s", "i", "p", "s">>,
     <<"m", "m", "s">>, <<>>, <<"s", "f", "t", "p">>}

uses_query ==
    {<<"h", "t", "t", "p">>, <<"w", "a", "i", "s">>, <<"i", "m", "a", "p">>,
     <<"h", "t", "t", "p", "s">>, <<"s", "h", "t", "t", "p">>,
     <<"m", "m", "s">>, <<"g", "o", "p", "h", "e", "r">>,
     <<"r", "t", "s", "p">>, <<"r", "t", "s", "p", "u">>, <<"s", "i", "p">>,
     <<"s", "i", "p", "s">>, <<>>}

uses_fragment ==
    {<<"f", "t", "p">>, <<"h", "d", "l">>, <<"h", "t", "t", "p">>,
     <<"g", "o", "p", "h", "e", "r">>, <<"n", "e", "w", "s">>,
     <<"n", "n", "t", "p">>, <<"w", "a", "i", "s">>,
     <<"h", "t", "t", "p", "s">>, <<"s", "h", "t", "t", "p">>,
     <<"s", "n", "e", "w", "s">>, <<"f", "i", "l", "e">>,
     <<"p", "r", "o", "s", "p", "e", "r", "o">>, <<>>}

scheme_chars == Letters \cup Digits \cup {"+", "-", "."}

\* s.split(sep, 1) as a pair, for a sep that occurs in s
SplitOnce(s, sep) ==
    LET i == Find(s, sep, 0)
    IN  <<Slice(s, 0, i), From(s, i + Len(sep))>>

\* s.rfind(sub)
RFind(s, sub) ==
    LET hits == {i \in 0..(Len(s) - Len(sub)) : StartsWithAt(s, sub, i)}
    IN  IF hits = {} THEN -1 ELSE CHOOSE i \in hits : \A j \in hits : i >= j

\* _splitnetloc(url, 2): (domain, rest)
splitnetloc(url) ==
    LET delims == {i \in 2..(Len(url) - 1) : At(url, i) \in {"/", "?", "#"}}
        delim == IF delims = {} THEN Len(url)
                 ELSE CHOOSE i \in delims : \A j \in delims : i <= j
    IN  <<Slice(url, 2, delim), From(url, delim)>>

\* _splitparams(url): (url, params)
splitparams(url) ==
    LET i == IF Contains(url, <<"/">>) THEN Find(url, <<";">>, RFind(url, <<"/">>))
             ELSE Find(url, <<";">>, 0)
    IN  IF i < 0 THEN <<url, <<>>>> ELSE <<Slice(url, 0, i), From(url, i + 1)>>

\* urlsplit after the scheme, the network location and the fragment are
\* split off: the query
urlsplit_query(scheme, netloc, url, fragment) ==
    IF scheme \in uses_query /\ Contains(url, <<"?">>)
    THEN [scheme |-> scheme, netloc |-> netloc, path |-> SplitOnce(url, <<"?">>)[1],
          query |-> SplitOnce(url, <<"?">>)[2], fragment |-> fragment]
    ELSE [scheme |-> scheme, netloc |-> netloc, path |-> url, query |-> <<>>,
          fragment |-> fragment]

urlsplit_fragment(scheme, netloc, url) ==
    IF scheme \in uses_fragment /\ Contains(url, <<"#">>)
    THEN urlsplit_query(scheme, netloc, SplitOnce(url, <<"#">>)[1],
                        SplitOnce(url, <<"#">>)[2])
    ELSE urlsplit_query(scheme, netloc, url, <<>>)

urlsplit_netloc(scheme, url) ==
    IF scheme \in uses_netloc /\ Slice(url, 0, 2) = <<"/", "/">>
    THEN urlsplit_fragment(scheme, splitnetloc(url)[1], splitnetloc(url)[2])
    ELSE urlsplit_fragment(scheme, <<>>, url)

\* the position of the colon that ends a scheme, or -1
SchemeEnd(url) ==
    IF /\ Find(url, <<":">>, 0) > 0
       /\ \A k \in 1..Find(url, <<":">>, 0) : url[k] \in scheme_chars
    THEN Find(url, <<":">>, 0) ELSE -1

urlsplit(url) ==
    IF SchemeEnd(url) > 0
    THEN urlsplit_netloc(Lower(Slice(url, 0, SchemeEnd(url))), From(url, SchemeEnd(url) + 1))
    ELSE urlsplit_netloc(<<>>, url)

\* urlparse on the result t of urlsplit
urlparse_params(t) ==
    IF t.scheme \in uses_params /\ Contains(t.path, <<";">>)
    THEN [scheme |-> t.scheme, netloc |-> t.netloc, path |-> splitparams(t.path)[1],
          params |-> splitparams(t.path)[2], query |-> t.query, fragment |-> t.fragment]
    ELSE [scheme |-> t.scheme, netloc |-> t.netloc, path |-> t.path,
          params |-> <<>>, query |-> t.query, fragment |-> t.fragment]

urlparse(url) == urlparse_params(urlsplit(url))

\* the path with its parameters, as urlunparse joins them
urlunparse_path(t) == IF t.params # <<>> THEN t.path \o <<";">> \o t.params ELSE t.path

\* urlunsplit of the scheme, the network location, the joined path url, the
\* query and the fragment
urlunsplit(t, url) ==
    (IF t.scheme # <<>> THEN t.scheme \o <<":">> ELSE <<>>)
    \o (IF \/ t.netloc # <<>>
           \/ /\ t.scheme # <<>>
              /\ t.scheme \in uses_netloc
              /\ Slice(url, 0, 2) # <<"/", "/">>
        THEN <<"/", "/">> \o t.netloc
             \o (IF url # <<>> /\ Slice(url, 0, 1) # <<"/">> THEN <<"/">> ELSE <<>>)
        ELSE <<>>)
    \o url
    \o (IF t.query # <<>> THEN <<"?">> \o t.query ELSE <<>>)
    \o (IF t.fragment # <<>> THEN <<"#">> \o t.fragment ELSE <<>>)

urlunparse(t) == urlunsplit(t, urlunparse_path(t))

locless_schemes == {<<>>, <<"m", "a", "i", "l", "t", "o">>, <<"n", "e", "w", "s">>}

\* "safe_url" of sanatize_url for the parsed url t
safe_url(t) ==
    /\ t.netloc # <<>> \/ t.scheme \in locless_schemes
    /\ \A part \in {t.path, t.params, t.query, t.fragment} : ~Contains(part, <<":">>)

\* the return statement of sanatize_url for the parsed url t
sanatize_parsed(t, safe_mode) ==
    IF safe_mode # "" /\ ~safe_url(t) THEN <<>> ELSE urlunparse(t)

\* LinkPattern.sanatize_url with self.safe_mode = safe_mode ("" for False)
sanatize_url(url, safe_mode) == sanatize_parsed(urlparse(url), safe_mode)

dequote(string) ==
    IF \/ StartsWith(string, <<"\"">>) /\ EndsWith(string, <<"\"">>)
       \/ StartsWith(string, <<"'">>) /\ EndsWith(string, <<"'">>)
    THEN Slice(string, 1, Len(string) - 1)
    ELSE string

(***************************************************************************)
(* handleAttributes                                                        *)
(***************************************************************************)
\* RE.regExp['attr']: "\{@([^\}]*)=([^\}]*)}"
ATTR_RE ==
    <<In({"{"}), In({"@"}), Grp(1, <<Star(<<NotIn({"}"})>>)>>), In({"="}),
      Grp(2, <<Star(<<NotIn({"}"})>>)>>), In({"}"})>>

\* regex.search(s, start): the leftmost match at or after start
re_search(regex, ngroups, s, start) ==
    With(Least({i \in start..Len(s) : re_run(regex, s, i, NoGroups(ngroups)).ok}),
         LAMBDA at :
         IF at < 0 THEN MatchFail
         ELSE With(re_run(regex, s, at, NoGroups(ngroups)), LAMBDA m :
                   [ok |-> TRUE, start |-> at, end |-> m.end, groups |-> m.groups]))

\* handleAttributes(text, parent): the text without its {@key=value} parts and
\* parent with the attributes set, from position start of text on
RECURSIVE handleAttributes_from(_, _, _)
handleAttributes_from(text, parent, start) ==
    With(re_search(ATTR_RE, 2, text, start), LAMBDA m :
        IF ~m.ok THEN [text |-> From(text, start), parent |-> parent]
        ELSE With(handleAttributes_from(
                      text,
                      [parent EXCEPT !.attrib =
                          DictSet(@, group(m, text, 1), group(m, text, 2))],
                      m.end),
                  LAMBDA r : [text |-> Slice(text, start, m.start) \o r.text,
                              parent |-> r.parent]))

handleAttributes(text, parent) == handleAttributes_from(text, parent, 0)

(***************************************************************************)
(* InlineStash: _nodes as the sequence of the nodes stored, the node with  *)
(* id "%04d" % n at index n + 1.  A stored node is a text or an element.   *)
(***************************************************************************)
NewInlineStash == <<>>

StrNode(text) == [isstr |-> TRUE, str |-> text, el |-> Element("")]
ElNode(el) == [isstr |-> FALSE, str |-> <<>>, el |-> el]

\* pattern.type(): the class name as text
TypeName(type) ==
    CASE type = "SimpleTextPattern" ->
           <<"S", "i", "m", "p", "l", "e", "T", "e", "x", "t", "P", "a", "t", "t", "e", "r", "n">>
      [] type = "SimpleTagPattern" ->
           <<"S", "i", "m", "p", "l", "e", "T", "a", "g", "P", "a", "t", "t", "e", "r", "n">>
      [] type = "SubstituteTagPattern" ->
           <<"S", "u", "b", "s", "t", "i", "t", "u", "t", "e", "T", "a", "g", "P", "a", "t", "t", "e", "r", "n">>
      [] type = "BacktickPattern" ->
           <<"B", "a", "c", "k", "t", "i", "c", "k", "P", "a", "t", "t", "e", "r", "n">>
      [] type = "DoubleTagPattern" ->
           <<"D", "o", "u", "b", "l", "e", "T", "a", "g", "P", "a", "t", "t", "e", "r", "n">>
      [] type = "HtmlPattern" ->
           <<"H", "t", "m", "l", "P", "a", "t", "t", "e", "r", "n">>
      [] type = "LinkPattern" ->
           <<"L", "i", "n", "k", "P", "a", "t", "t", "e", "r", "n">>
      [] type = "ImagePattern" ->
           <<"I", "m", "a", "g", "e", "P", "a", "t", "t", "e", "r", "n">>
      [] type = "ReferencePattern" ->
           <<"R", "e", "f", "e", "r", "e", "n", "c", "e", "P", "a", "t", "t", "e", "r", "n">>
      [] type = "ImageReferencePattern" ->
           <<"I", "m", "a", "g", "e", "R", "e", "f", "e", "r", "e", "n", "c", "e", "P", "a", "t", "t", "e", "r", "n">>
      [] type = "AutolinkPattern" ->
           <<"A", "u", "t", "o", "l", "i", "n", "k", "P", "a", "t", "t", "e", "r", "n">>
      [] type = "AutomailPattern" ->
           <<"A", "u", "t", "o", "m", "a", "i", "l", "P", "a", "t", "t", "e", "r", "n">>

\* InlineStash._genPlaceholder(type): the placeholder text
\* a placeholder that always carries the first identifier
genPlaceholderFirst(nodes, type) ==
    INLINE_PLACEHOLDER_PREFIX \o TypeName(type) \o <<":">> \o Fmt4(0)
    \o INLINE_PLACEHOLDER_SUFFIX

genPlaceholder(nodes, type) ==
    INLINE_PLACEHOLDER_PREFIX \o TypeName(type) \o <<":">> \o Fmt4(Len(nodes))
    \o INLINE_PLACEHOLDER_SUFFIX

\* InlineStash.add(node, type): the stash and the placeholder
\* an add that hands out the placeholder without keeping the node
InlineStash_add_dropping(nodes, node, type) ==
    [nodes |-> nodes, pholder |-> genPlaceholder(nodes, type)]

InlineStash_add(nodes, node, type) ==
    [nodes |-> Append(nodes, node), pholder |-> genPlaceholder(nodes, type)]

\* InlineStash.extractId(data, index): id is <<>> for None
extractId(data, index) ==
    LET endIndex == Find(data, INLINE_PLACEHOLDER_SUFFIX, index + 1)
        pair == Split(Slice(data, index + Len(INLINE_PLACEHOLDER_PREFIX), endIndex),
                      <<":">>)
    IN  IF endIndex = -1 \/ Len(pair) # 2
        THEN [found |-> FALSE, id |-> <<>>, end |-> index + 1]
        ELSE [found |-> TRUE, id |-> pair[2],
              end |-> endIndex + Len(INLINE_PLACEHOLDER_SUFFIX)]

\* InlineStash.isin(id)
InlineStash_isin(nodes, id) == \E n \in 0..(Len(nodes) - 1) : Fmt4(n) = id

\* InlineStash.get(id) for an id that is in
InlineStash_get(nodes, id) == nodes[1 + CHOOSE n \in 0..(Len(nodes) - 1) : Fmt4(n) = id]

(***************************************************************************)
(* The handlers of the inline patterns.  A handler result is None, a text  *)
(* or an element; HtmlPattern stores into the stash bound to the pattern.  *)
(* The state st of an inline run holds the objects the run reads and       *)
(* writes: the engine's inline stash (inl), the raw-fragment stash bound   *)
(* to HTML_PATTERN and ENTITY_PATTERN (html), the table bound to the       *)
(* reference patterns (refs), the patterns' safe_mode (safe), and the      *)
(* history of the run (fields, the texts handed to _handleInline; applied, *)
(* the index of the pattern of every match, in order).                     *)
(***************************************************************************)
NoneResult(st) == [kind |-> "none", str |-> <<>>, el |-> Element(""), st |-> st]
StrResult(text, st) == [kind |-> "str", str |-> text, el |-> Element(""), st |-> st]
ElResult(el, st) == [kind |-> "el", str |-> <<>>, el |-> el, st |-> st]

SetAttr(el, key, value) == [el EXCEPT !.attrib = DictSet(@, key, value)]

SimpleTextPattern_handleMatch(pattern, m, data, st) ==
    LET text == group(m, data, 2)
    IN  IF text = INLINE_PLACEHOLDER_PREFIX THEN NoneResult(st) ELSE StrResult(text, st)

SimpleTagPattern_handleMatch(pattern, m, data, st) ==
    ElResult([Element(pattern.tag) EXCEPT !.text = group(m, data, 3)], st)

SubstituteTagPattern_handleMatch(pattern, m, data, st) ==
    ElResult(Element(pattern.tag), st)

BacktickPattern_handleMatch(pattern, m, data, st) ==
    ElResult([Element(pattern.tag) EXCEPT !.text = Strip(group(m, data, 3))], st)

DoubleTagPattern_handleMatch(pattern, m, data, st) ==
    ElResult(AppendChild(Element(pattern.tag[1]),
                         [Element(pattern.tag[2]) EXCEPT !.text = group(m, data, 3)]), st)

HtmlPattern_handleMatch(pattern, m, data, st) ==
    LET r == HtmlStash_store(st.html, group(m, data, 2), FALSE)
    IN  StrResult(r.placeholder, [st EXCEPT !.html = r.stash])

LinkPattern_handleMatch(pattern, m, data, st) ==
    With(group(m, data, 9), LAMBDA href :
    With(SetAttr([Element("a") EXCEPT !.text = group(m, data, 2)],
                 <<"h", "r", "e", "f">>,
                 IF href = <<>> THEN <<>>
                 ELSE IF At(href, 0) = "<"
                 THEN sanatize_url(Strip(Slice(href, 1, Len(href) - 1)), st.safe)
                 ELSE sanatize_url(Strip(href), st.safe)),
         LAMBDA el :
    ElResult(IF group(m, data, 11) # <<>>
             THEN SetAttr(el, <<"t", "i", "t", "l", "e">>, dequote(group(m, data, 11)))
             ELSE el, st)))

ImagePattern_handleMatch(pattern, m, data, st) ==
    With(Words(group(m, data, 9)), LAMBDA src_parts :
    With(SetAttr(Element("img"), <<"s", "r", "c">>,
                 IF src_parts = <<>> THEN <<>>
                 ELSE IF At(src_parts[1], 0) = "<"
                         /\ At(src_parts[1], Len(src_parts[1]) - 1) = ">"
                 THEN sanatize_url(Slice(src_parts[1], 1, Len(src_parts[1]) - 1), st.safe)
                 ELSE sanatize_url(src_parts[1], st.safe)),
         LAMBDA el :
    With(handleAttributes(group(m, data, 2),
                          IF Len(src_parts) > 1
                          THEN SetAttr(el, <<"t", "i", "t", "l", "e">>,
                                       dequote(Join(Tail(src_parts), <<" ">>)))
                          ELSE el),
         LAMBDA truealt :
    ElResult(SetAttr(truealt.parent, <<"a", "l", "t">>, truealt.text), st))))

\* a makeTag that leaves the stored title out
makeTagWithoutTitle(href, title, text, safe_mode) ==
    [SetAttr(Element("a"), <<"h", "r", "e", "f">>, sanatize_url(href, safe_mode))
        EXCEPT !.text = text]

ReferencePattern_makeTag(href, title, text, safe_mode) ==
    With(SetAttr(Element("a"), <<"h", "r", "e", "f">>, sanatize_url(href, safe_mode)),
         LAMBDA el :
    [(IF title # <<>> THEN SetAttr(el, <<"t", "i", "t", "l", "e">>, title) ELSE el)
        EXCEPT !.text = text])

ImageReferencePattern_makeTag(href, title, text, safe_mode) ==
    With(SetAttr(Element("img"), <<"s", "r", "c">>, sanatize_url(href, safe_mode)),
         LAMBDA el :
    SetAttr(IF title # <<>> THEN SetAttr(el, <<"t", "i", "t", "l", "e">>, title) ELSE el,
            <<"a", "l", "t">>, text))

\* ReferencePattern.handleMatch, which ImageReferencePattern inherits
ReferencePattern_handleMatch(pattern, m, data, st) ==
    With(IF group(m, data, 9) # <<>> THEN Lower(group(m, data, 9))
         ELSE Lower(group(m, data, 2)),
         LAMBDA id :
    IF id \notin DOMAIN st.refs THEN NoneResult(st)
    ELSE IF pattern.type = "ImageReferencePattern"
    THEN ElResult(ImageReferencePattern_makeTag(st.refs[id].href, st.refs[id].title,
                                                group(m, data, 2), st.safe), st)
    ELSE ElResult(ReferencePattern_makeTag(st.refs[id].href, st.refs[id].title,
                                           group(m, data, 2), st.safe), st))

AutolinkPattern_handleMatch(pattern, m, data, st) ==
    ElResult([SetAttr(Element("a"), <<"h", "r", "e", "f">>, group(m, data, 2))
                 EXCEPT !.text = group(m, data, 2)], st)

\* the numeric character reference that both codepoint2name and the href of
\* AutomailPattern give a letter with no entity name
CharRef(c) == AMP_SUBSTITUTE \o <<"#">> \o Decimal(ord(c)) \o <<";">>

\* htmlentitydefs.codepoint2name of the characters U+0020 .. U+007E
EntityName(c) ==
    CASE c = "\"" -> <<"q", "u", "o", "t">>
      [] c = "&" -> <<"a", "m", "p">>
      [] c = "<" -> <<"l", "t">>
      [] c = ">" -> <<"g", "t">>
      [] OTHER -> <<>>

codepoint2name(c) ==
    IF EntityName(c) # <<>> THEN AMP_SUBSTITUTE \o EntityName(c) \o <<";">>
    ELSE CharRef(c)

\* "".join(f(c) for c in s), by halves
RECURSIVE MapConcat(_, _)
MapConcat(f(_), s) ==
    IF s = <<>> THEN <<>>
    ELSE IF Len(s) = 1 THEN f(s[1])
    ELSE MapConcat(f, SubSeq(s, 1, Len(s) \div 2))
         \o MapConcat(f, SubSeq(s, Len(s) \div 2 + 1, Len(s)))

AutomailPattern_handleMatch(pattern, m, data, st) ==
    LET email0 == group(m, data, 2)
        mailto == <<"m", "a", "i", "l", "t", "o", ":">>
        email == IF StartsWith(email0, mailto) THEN From(email0, Len(mailto)) ELSE email0
    IN  ElResult([SetAttr(Element("a"), <<"h", "r", "e", "f">>,
                          MapConcat(CharRef, mailto \o email))
                     EXCEPT !.text = MapConcat(codepoint2name, email)], st)

\* pattern.handleMatch(match), by the class of the pattern
handleMatch(pattern, m, data, st) ==
    CASE pattern.type = "SimpleTextPattern" -> SimpleTextPattern_handleMatch(pattern, m, data, st)
      [] pattern.type = "SimpleTagPattern" -> SimpleTagPattern_handleMatch(pattern, m, data, st)
      [] pattern.type = "SubstituteTagPattern" ->
           SubstituteTagPattern_handleMatch(pattern, m, data, st)
      [] pattern.type = "BacktickPattern" -> BacktickPattern_handleMatch(pattern, m, data, st)
      [] pattern.type = "DoubleTagPattern" -> DoubleTagPattern_handleMatch(pattern, m, data, st)
      [] pattern.type = "HtmlPattern" -> HtmlPattern_handleMatch(pattern, m, data, st)
      [] pattern.type = "LinkPattern" -> LinkPattern_handleMatch(pattern, m, data, st)
      [] pattern.type = "ImagePattern" -> ImagePattern_handleMatch(pattern, m, data, st)
      [] pattern.type \in {"ReferencePattern", "ImageReferencePattern"} ->
           ReferencePattern_handleMatch(pattern, m, data, st)
      [] pattern.type = "AutolinkPattern" -> AutolinkPattern_handleMatch(pattern, m, data, st)
      [] pattern.type = "AutomailPattern" -> AutomailPattern_handleMatch(pattern, m, data, st)

(***************************************************************************)
(* The inline engine                                                       *)
(***************************************************************************)
\* the patterns with LINE_BREAK_PATTERN ahead of LINE_BREAK_PATTERN_2
inlinePatternsBreakFirst ==
    <<BACKTICK_PATTERN, ESCAPE_PATTERN, REFERENCE_PATTERN, LINK_PATTERN,
      IMAGE_LINK_PATTERN, IMAGE_REFERENCE_PATTERN, AUTOLINK_PATTERN, AUTOMAIL_PATTERN,
      LINE_BREAK_PATTERN, LINE_BREAK_PATTERN_2, HTML_PATTERN, ENTITY_PATTERN,
      NOT_STRONG_PATTERN, STRONG_EM_PATTERN, STRONG_PATTERN, EMPHASIS_PATTERN,
      EMPHASIS_PATTERN_2>>

\* self.inlinePatterns as Markdown.__init__ builds it
inlinePatterns ==
    <<BACKTICK_PATTERN, ESCAPE_PATTERN, REFERENCE_PATTERN, LINK_PATTERN,
      IMAGE_LINK_PATTERN, IMAGE_REFERENCE_PATTERN, AUTOLINK_PATTERN, AUTOMAIL_PATTERN,
      LINE_BREAK_PATTERN_2, LINE_BREAK_PATTERN, HTML_PATTERN, ENTITY_PATTERN,
      NOT_STRONG_PATTERN, STRONG_EM_PATTERN, STRONG_PATTERN, EMPHASIS_PATTERN,
      EMPHASIS_PATTERN_2>>

\* the state of an inline run over the given objects
InlineState(inl, html, refs, safe) ==
    [inl |-> inl, html |-> html, refs |-> refs, safe |-> safe,
     fields |-> <<>>, levels |-> <<>>, applied |-> <<>>]

RECURSIVE handleInline(_, _, _)
RECURSIVE handleInline_loop(_, _, _, _)
RECURSIVE applyInline(_, _, _, _, _)
RECURSIVE applyInline_children(_, _, _, _)
RECURSIVE applyInline_stash(_, _, _, _, _, _, _)

\* _handleInline(data, patternIndex): [data, st]
handleInline(data, patternIndex, st) ==
    handleInline_loop(data, patternIndex, 0,
                      [st EXCEPT !.fields = Append(@, data),
                                 !.levels = Append(@, patternIndex)])

\* the while loop of _handleInline.  A pattern that does not match leaves
\* data as it is and hands over to the next pattern at startIndex 0, so the
\* loop is taken up at the first pattern from patternIndex on that matches.
handleInline_loop(data, patternIndex, startIndex, st) ==
    With(Least({i \in patternIndex..(Len(inlinePatterns) - 1) :
                   re_match(inlinePatterns[i + 1].compiled_re, inlinePatterns[i + 1].ngroups,
                            From(data, IF i = patternIndex THEN startIndex ELSE 0)).ok}),
         LAMBDA i :
         IF i < 0 THEN [data |-> data, st |-> st]
         ELSE With(applyInline(inlinePatterns[i + 1], data, i,
                               IF i = patternIndex THEN startIndex ELSE 0, st),
                   LAMBDA r : handleInline_loop(r.data, i, r.startIndex, r.st)))

\* the loop over a node and its children with the text taken up at the
\* pattern that made the node
RECURSIVE applyInline_children_same(_, _, _, _)
applyInline_children_same(children, k, patternIndex, st) ==
    IF k > Len(children) THEN [children |-> children, st |-> st]
    ELSE With(IF children[k].text # <<>>
              THEN handleInline(children[k].text, patternIndex, st)
              ELSE [data |-> children[k].text, st |-> st],
              LAMBDA t :
         applyInline_children_same(
             [children EXCEPT ![k] = [@ EXCEPT !.text = t.data]],
             k + 1, patternIndex, t.st))

\* "for child in [node] + node.getchildren()" of _applyInline over the
\* children from k on: text at patternIndex + 1, tail at patternIndex
applyInline_children(children, k, patternIndex, st) ==
    IF k > Len(children) THEN [children |-> children, st |-> st]
    ELSE With(IF children[k].text # <<>>
              THEN handleInline(children[k].text, patternIndex + 1, st)
              ELSE [data |-> children[k].text, st |-> st],
              LAMBDA t :
         With(IF children[k].tail # <<>>
              THEN handleInline(children[k].tail, patternIndex, t.st)
              ELSE [data |-> children[k].tail, st |-> t.st],
              LAMBDA l :
         applyInline_children(
             [children EXCEPT ![k] = [@ EXCEPT !.text = t.data, !.tail = l.data]],
             k + 1, patternIndex, l.st)))

\* _applyInline(pattern, data, patternIndex, startIndex):
\* [data, matched, startIndex, st]
\* _applyInline with a handler's None taken to leave the search where it is
applyInlineStaying(pattern, data, patternIndex, startIndex, st) ==
    With(re_match(pattern.compiled_re, pattern.ngroups, From(data, startIndex)), LAMBDA m :
    IF ~m.ok THEN [data |-> data, matched |-> FALSE, startIndex |-> 0, st |-> st]
    ELSE With(handleMatch(pattern, m, From(data, startIndex), st), LAMBDA h :
         IF h.kind = "none"
         THEN [data |-> data, matched |-> TRUE, startIndex |-> startIndex, st |-> st]
         ELSE applyInline_stash(pattern, data, patternIndex, startIndex, m, h,
                                h.kind = "el" /\ h.el.tag \notin {"code", "pre"})))

\* _applyInline with a handler's None taken to end the search of the field
applyInlineSkipping(pattern, data, patternIndex, startIndex, st) ==
    With(re_match(pattern.compiled_re, pattern.ngroups, From(data, startIndex)), LAMBDA m :
    IF ~m.ok THEN [data |-> data, matched |-> FALSE, startIndex |-> 0, st |-> st]
    ELSE With(handleMatch(pattern, m, From(data, startIndex), st), LAMBDA h :
         IF h.kind = "none"
         THEN [data |-> data, matched |-> TRUE, startIndex |-> Len(data),
               st |-> [h.st EXCEPT !.applied = Append(@, patternIndex)]]
         ELSE applyInline_stash(pattern, data, patternIndex, startIndex, m, h,
                                h.kind = "el" /\ h.el.tag \notin {"code", "pre"})))

applyInline(pattern, data, patternIndex, startIndex, st) ==
    With(re_match(pattern.compiled_re, pattern.ngroups, From(data, startIndex)), LAMBDA m :
    IF ~m.ok THEN [data |-> data, matched |-> FALSE, startIndex |-> 0, st |-> st]
    ELSE With(handleMatch(pattern, m, From(data, startIndex), st), LAMBDA h :
         IF h.kind = "none"
         THEN [data |-> data, matched |-> TRUE,
               startIndex |-> Len(Slice(data, 0, startIndex)) + m.groups[pattern.ngroups].s,
               st |-> [h.st EXCEPT !.applied = Append(@, patternIndex)]]
         ELSE applyInline_stash(pattern, data, patternIndex, startIndex, m, h,
                                h.kind = "el" /\ h.el.tag \notin {"code", "pre"})))

\* what _applyInline does with a node that is not None: the node, with its
\* own text and tail and those of its children handled unless it is code,
\* goes to the inline stash and its placeholder into the data
applyInline_stash(pattern, data, patternIndex, startIndex, m, h, deep) ==
    With(IF deep
         THEN applyInline_children(<<h.el>>, 1, patternIndex,
                                   [h.st EXCEPT !.applied = Append(@, patternIndex)])
         ELSE [children |-> <<>>, st |-> [h.st EXCEPT !.applied = Append(@, patternIndex)]],
         LAMBDA self :
    With(IF deep THEN applyInline_children(h.el.children, 1, patternIndex, self.st)
         ELSE [children |-> <<>>, st |-> self.st],
         LAMBDA kids :
    With(InlineStash_add(kids.st.inl,
                         IF h.kind = "str" THEN StrNode(h.str)
                         ELSE IF deep
                         THEN ElNode([self.children[1] EXCEPT !.children = kids.children])
                         ELSE ElNode(h.el),
                         pattern.type),
         LAMBDA a :
    [data |-> Slice(data, 0, startIndex) \o group(m, From(data, startIndex), 1)
              \o a.pholder \o group(m, From(data, startIndex), pattern.ngroups),
     matched |-> TRUE, startIndex |-> 0,
     st |-> [kids.st EXCEPT !.inl = a.nodes]])))

RECURSIVE processPlaceholders_loop(_, _, _, _)
RECURSIVE processPlaceholders_found(_, _, _, _, _)
RECURSIVE processStashedNode(_, _)
RECURSIVE processStashedChildren(_, _, _)

\* a linkText that puts every text onto the parent
linkTextOntoParent(acc, text) == [acc EXCEPT !.text = @ \o text]

\* linkText(text) of _processPlaceholders on (the text of parent, result)
linkText(acc, text) ==
    IF text = <<>> THEN acc
    ELSE IF acc.result # <<>>
    THEN [acc EXCEPT !.result[Len(acc.result)].tail = @ \o text]
    ELSE [acc EXCEPT !.text = @ \o text]

\* _processElementText(child, child) for a child whose text is not blank: the
\* text is replaced by what precedes its first placeholder and the nodes of
\* its placeholders are inserted before its children
processElementText(child, nodes) ==
    LET r == processPlaceholders_loop(child.text, 0, [text |-> <<>>, result |-> <<>>],
                                      nodes)
    IN  [child EXCEPT !.text = r.text, !.children = r.result \o @]

processStashedChildren(children, k, nodes) ==
    IF k > Len(children) THEN children
    ELSE processStashedChildren(
             [children EXCEPT ![k] = IF Strip(@.text) # <<>>
                                     THEN processElementText(@, nodes) ELSE @],
             k + 1, nodes)

\* "for child in [node] + node.getchildren()" of _processPlaceholders: the
\* tail of a node taken from the stash, and that of its children, is None,
\* so only the texts are processed; the children are those the node had
\* before its own text was processed
processStashedNode(node, nodes) ==
    With(IF Strip(node.text) # <<>> THEN processElementText(node, nodes) ELSE node,
         LAMBDA self :
    [self EXCEPT !.children =
        SubSeq(self.children, 1, Len(self.children) - Len(node.children))
        \o processStashedChildren(node.children, 1, nodes)])

\* the while loop of _processPlaceholders(data, parent) from strartIndex on,
\* acc = (the text of parent, result)
processPlaceholders_loop(data, strartIndex, acc, nodes) ==
    IF data = <<>> THEN acc
    ELSE With(Find(data, INLINE_PLACEHOLDER_PREFIX, strartIndex), LAMBDA index :
         IF index = -1 THEN linkText(acc, From(data, strartIndex))
         ELSE With(extractId(data, index), LAMBDA x :
              IF x.found /\ InlineStash_isin(nodes, x.id)
              THEN processPlaceholders_found(
                       data, x.end,
                       IF index > 0 THEN linkText(acc, Slice(data, strartIndex, index))
                       ELSE acc,
                       nodes, InlineStash_get(nodes, x.id))
              ELSE processPlaceholders_loop(
                       data, index + Len(INLINE_PLACEHOLDER_PREFIX),
                       linkText(acc, Slice(data, strartIndex,
                                           index + Len(INLINE_PLACEHOLDER_PREFIX))),
                       nodes)))

\* the branch "if id in self.inlineStash" of _processPlaceholders for the
\* node of the placeholder
processPlaceholders_found(data, strartIndex, acc, nodes, node) ==
    IF node.isstr
    THEN processPlaceholders_loop(data, strartIndex, linkText(acc, node.str), nodes)
    ELSE processPlaceholders_loop(
             data, strartIndex,
             [acc EXCEPT !.result = Append(@, processStashedNode(node.el, nodes))], nodes)

\* _processPlaceholders(data, parent) for a parent whose text is parentText:
\* [text, result], the text of parent afterwards and the nodes returned
processPlaceholders(data, parentText, nodes) ==
    processPlaceholders_loop(data, 0, [text |-> parentText, result |-> <<>>], nodes)

(***************************************************************************)
(* applyInlinePatterns: the walk over the tree.  An element of the stack   *)
(* is the path of a node, the indices of the children from the root down.  *)
(***************************************************************************)
RECURSIVE NodeAt(_, _)
NodeAt(root, path) ==
    IF path = <<>> THEN root ELSE NodeAt(root.children[Head(path)], Tail(path))

RECURSIVE ReplaceAt(_, _, _)
ReplaceAt(root, path, node) ==
    IF path = <<>> THEN node
    ELSE [root EXCEPT !.children[Head(path)] = ReplaceAt(@, Tail(path), node)]

\* "for newChild in lst" of applyInlinePatterns from the k-th on: element
\* with the attributes of the tails set, lst with those of the texts set
RECURSIVE InsertQueue_loop(_, _, _)
InsertQueue_loop(element, lst, k) ==
    IF k > Len(lst) THEN [element |-> element, lst |-> lst]
    ELSE With(IF lst[k].tail # <<>> THEN handleAttributes(lst[k].tail, element)
              ELSE [text |-> lst[k].tail, parent |-> element],
              LAMBDA tl :
         With(IF lst[k].text # <<>>
              THEN handleAttributes(lst[k].text, [lst[k] EXCEPT !.tail = tl.text])
              ELSE [text |-> lst[k].text, parent |-> [lst[k] EXCEPT !.tail = tl.text]],
              LAMBDA tx :
         InsertQueue_loop(tl.parent,
                          [lst EXCEPT ![k] = [tx.parent EXCEPT !.text = tx.text]], k + 1)))

\* one entry (element, lst) of insertQueue: element with its attributes
\* handled and lst inserted before its children
InsertQueue_entry(element, lst) ==
    With(IF element.text # <<>> THEN handleAttributes(element.text, element)
         ELSE [text |-> element.text, parent |-> element],
         LAMBDA t :
    With(InsertQueue_loop([t.parent EXCEPT !.text = t.text], lst, 1), LAMBDA r :
    [r.element EXCEPT !.children = r.lst \o @]))

\* "for child in currElement.getchildren()" from the k-th child on, with the
\* insertQueue entry of each child applied: [curr, st, pushed]
RECURSIVE applyInlinePatterns_children(_, _, _, _, _)
applyInlinePatterns_children(curr, k, path, st, pushed) ==
    IF k > Len(curr.children) THEN [curr |-> curr, st |-> st, pushed |-> pushed]
    ELSE IF curr.children[k].text # <<>> /\ curr.children[k].tag \notin {"code", "pre"}
    THEN With(handleInline(curr.children[k].text, 0, st), LAMBDA h :
         With(processPlaceholders(h.data, <<>>, h.st.inl), LAMBDA pp :
         applyInlinePatterns_children(
             [curr EXCEPT !.children[k] =
                 InsertQueue_entry([@ EXCEPT !.text = pp.text], pp.result)],
             k + 1, path, h.st,
             pushed \o [i \in 1..Len(pp.result) |-> path \o <<k, i>>]
                    \o (IF curr.children[k].children # <<>> THEN <<path \o <<k>>>>
                        ELSE <<>>))))
    ELSE applyInlinePatterns_children(
             curr, k + 1, path, st,
             pushed \o (IF curr.children[k].children # <<>> THEN <<path \o <<k>>>>
                        ELSE <<>>))

\* "while stack" of applyInlinePatterns: [root, st]
RECURSIVE applyInlinePatterns_loop(_, _, _)
applyInlinePatterns_loop(root, stack, st) ==
    IF stack = <<>> THEN [root |-> root, st |-> st]
    ELSE With(applyInlinePatterns_children(NodeAt(root, stack[Len(stack)]), 1,
                                           stack[Len(stack)], st, <<>>),
              LAMBDA r :
              applyInlinePatterns_loop(ReplaceAt(root, stack[Len(stack)], r.curr),
                                       SubSeq(stack, 1, Len(stack) - 1) \o r.pushed, r.st))

applyInlinePatterns(root, st) == applyInlinePatterns_loop(root, <<<<>>>>, st)

(***************************************************************************)
(* Serialization: indentETree, then ElementTree.tostring (version 1.2.6,   *)
(* the xml.etree of Python 2.5/2.6 that importETree selects)               *)
(***************************************************************************)
\* the text "i" of indentETree at a level
Indent(level) == <<"\n">> \o [k \in 1..(2 * Max(level - 1, 0)) |-> " "]

RECURSIVE indentETree(_, _)
RECURSIVE indentETree_children(_, _, _)
\* "for e in elem: indentETree(e, level+1)" and the tail of the last e
indentETree_children(children, level, k) ==
    IF k > Len(children) THEN <<>>
    ELSE With(indentETree(children[k], level + 1), LAMBDA e :
              <<IF k = Len(children) /\ Strip(e.tail) = <<>>
                THEN [e EXCEPT !.tail = Indent(level)] ELSE e>>
              \o indentETree_children(children, level, k + 1))

indentETree(elem, level) ==
    With(IF elem.children = <<>> THEN elem
         ELSE [elem EXCEPT
                 !.text = IF Strip(@) = <<>> THEN Indent(level) \o <<" ", " ">> ELSE @,
                 !.children = indentETree_children(@, level, 1)],
         LAMBDA e1 :
         IF level > 0 /\ Strip(e1.tail) = <<>> THEN [e1 EXCEPT !.tail = Indent(level)] ELSE e1)

\* the characters of a tag name
TagText(tag) ==
    CASE tag = "span" -> <<"s", "p", "a", "n">>
      [] tag = "p" -> <<"p">>
      [] tag = "hr" -> <<"h", "r">>
      [] tag = "ul" -> <<"u", "l">>
      [] tag = "ol" -> <<"o", "l">>
      [] tag = "li" -> <<"l", "i">>
      [] tag = "blockquote" -> <<"b", "l", "o", "c", "k", "q", "u", "o", "t", "e">>
      [] tag = "pre" -> <<"p", "r", "e">>
      [] tag = "code" -> <<"c", "o", "d", "e">>
      [] tag = "a" -> <<"a">>
      [] tag = "img" -> <<"i", "m", "g">>
      [] tag = "em" -> <<"e", "m">>
      [] tag = "strong" -> <<"s", "t", "r", "o", "n", "g">>
      [] tag = "br " -> <<"b", "r", " ">>
      [] tag \in {"h1", "h2", "h3", "h4", "h5", "h6"} ->
            <<"h", DigitChar(CHOOSE n \in 1..6 : HeaderTag(n) = tag)>>

\* ElementTree._escape_cdata
escape_cdata(text) ==
    With(Replace(text, <<"&">>, <<"&", "a", "m", "p", ";">>), LAMBDA t1 :
    With(Replace(t1, <<"<">>, <<"&", "l", "t", ";">>), LAMBDA t2 :
         Replace(t2, <<">">>, <<"&", "g", "t", ";">>)))

\* ElementTree._escape_attrib
escape_attrib(text) ==
    With(Replace(text, <<"&">>, <<"&", "a", "m", "p", ";">>), LAMBDA t1 :
    With(Replace(t1, <<"'">>, <<"&", "a", "p", "o", "s", ";">>), LAMBDA t2 :
    With(Replace(t2, <<"\"">>, <<"&", "q", "u", "o", "t", ";">>), LAMBDA t3 :
    With(Replace(t3, <<"<">>, <<"&", "l", "t", ";">>), LAMBDA t4 :
         Replace(t4, <<">">>, <<"&", "g", "t", ";">>)))))

\* a < b in the order of list.sort() on unicode strings
TextLess(a, b) ==
    \E i \in 1..(Min(Len(a), Len(b)) + 1) :
        /\ \A j \in 1..(i - 1) : a[j] = b[j]
        /\ i <= Len(b)
        /\ i > Len(a) \/ ord(a[i]) < ord(b[i])

\* "items.sort()" and the loop writing  key="value"  of ElementTree._write
RECURSIVE ET_write_items(_, _)
ET_write_items(attrib, keys) ==
    IF keys = {} THEN <<>>
    ELSE LET k == CHOOSE x \in keys : \A y \in keys \ {x} : TextLess(x, y)
         IN  <<" ">> \o k \o <<"=", "\"">> \o escape_attrib(attrib[k]) \o <<"\"">>
             \o ET_write_items(attrib, keys \ {k})

\* ElementTree._write(file, node, encoding, namespaces): what it writes
RECURSIVE ET_write(_)
RECURSIVE ET_write_all(_)
ET_write_all(nodes) ==
    IF nodes = <<>> THEN <<>> ELSE ET_write(Head(nodes)) \o ET_write_all(Tail(nodes))

ET_write(node) ==
    <<"<">> \o TagText(node.tag) \o ET_write_items(node.attrib, DOMAIN node.attrib)
    \o (IF node.text # <<>> \/ node.children # <<>>
        THEN <<">">> \o escape_cdata(node.text) \o ET_write_all(node.children)
             \o <<"<", "/">> \o TagText(node.tag) \o <<">">>
        ELSE <<" ", "/", ">">>)
    \o escape_cdata(node.tail)

\* etree.tostring(root, encoding="utf8")
tostring(root) ==
    <<"<", "?", "x", "m", "l", " ", "v", "e", "r", "s", "i", "o", "n", "=", "'", "1",
      ".", "0", "'", " ", "e", "n", "c", "o", "d", "i", "n", "g", "=", "'", "u", "t",
      "f", "8", "'", "?", ">", "\n">> \o ET_write(root)

(***************************************************************************)
(* Text postprocessors                                                     *)
(***************************************************************************)
\* RawHtmlTextPostprocessor.escape(html)
escape(html) ==
    With(Replace(html, <<"&">>, <<"&", "a", "m", "p", ";">>), LAMBDA t1 :
    With(Replace(t1, <<"<">>, <<"&", "l", "t", ";">>), LAMBDA t2 :
    With(Replace(t2, <<">">>, <<"&", "g", "t", ";">>), LAMBDA t3 :
         Replace(t3, <<"\"">>, <<"&", "q", "u", "o", "t", ";">>))))

\* a restore step that puts every fragment back as it was stored
RawHtml_step_verbatim(text, stash, safeMode, i) ==
    Replace(Replace(text,
                    <<"<", "p", ">">> \o HTML_PLACEHOLDER(i) \o <<"\n", "<", "/", "p", ">">>,
                    stash.rawHtmlBlocks[i + 1].html \o <<"\n">>),
            HTML_PLACEHOLDER(i), stash.rawHtmlBlocks[i + 1].html)

\* the body of "for i in range(self.stash.html_counter)" for one i
RawHtml_step(text, stash, safeMode, i) ==
    With(IF safeMode # "" /\ ~stash.rawHtmlBlocks[i + 1].safe
         THEN IF safeMode = "escape" THEN escape(stash.rawHtmlBlocks[i + 1].html)
              ELSE IF safeMode = "remove" THEN <<>>
              ELSE HTML_REMOVED_TEXT
         ELSE stash.rawHtmlBlocks[i + 1].html,
         LAMBDA html :
    With(Replace(text,
                 <<"<", "p", ">">> \o HTML_PLACEHOLDER(i) \o <<"\n", "<", "/", "p", ">">>,
                 html \o <<"\n">>),
         LAMBDA t1 : Replace(t1, HTML_PLACEHOLDER(i), html)))

RECURSIVE RawHtml_loop(_, _, _, _)
RawHtml_loop(text, stash, safeMode, i) ==
    IF i >= stash.html_counter THEN text
    ELSE With(RawHtml_step(text, stash, safeMode, i), LAMBDA t :
              RawHtml_loop(t, stash, safeMode, i + 1))

\* RawHtmlTextPostprocessor.run(text) with self.stash = stash and
\* self.safeMode = safeMode ("" for a false value)
RawHtmlTextPostprocessor_run(text, stash, safeMode) == RawHtml_loop(text, stash, safeMode, 0)

\* AndSubstitutePostprocessor.run(text)
AndSubstitutePostprocessor_run(text) == Replace(text, AMP_SUBSTITUTE, <<"&">>)

(***************************************************************************)
(* Markdown.convert                                                        *)
(***************************************************************************)
\* what a convert call leaves: the error it raised ("" when it returned), the
\* text it returned, and the objects it worked on as it left them
ConvertResult(err, out, inl, html, refs, fields, applied) ==
    [err |-> err, out |-> out, inlineStash |-> inl, htmlStash |-> html,
     references |-> refs, fields |-> fields, applied |-> applied]

\* the serialization of convert: the indented tree as text without the XML
\* declaration and the opening tag of the root (44 characters) and without
\* its closing tag (7 characters), through the text postprocessors, stripped
convert_output(root, stash, safeMode) ==
    With(indentETree(root, 0), LAMBDA indented :
    With(tostring(indented), LAMBDA xml :
    With(Strip(xml), LAMBDA stripped :
    With(RawHtmlTextPostprocessor_run(Slice(stripped, 44, Len(stripped) - 7) \o <<"\n">>,
                                      stash, safeMode),
         LAMBDA text :
    With(AndSubstitutePostprocessor_run(text), LAMBDA result : Strip(result))))))

\* markdownToTree(source) for a source that is not empty, with the stash of
\* HTML_BLOCK_PREPROCESSOR and the references of REFERENCE_PREPROCESSOR:
\* [err, tree, stash, references]
markdownToTree(source, htmlStash, references) ==
    With(HtmlBlockPreprocessor_run(FixupSource(source), htmlStash), LAMBDA h :
    IF h.err # ""
    THEN [err |-> h.err, tree |-> Element("span"), stash |-> h.stash,
          references |-> references]
    ELSE With(RunPreprocessors(Split(h.text, <<"\n">>), references), LAMBDA p :
         IF p.err # ""
         THEN [err |-> p.err, tree |-> Element("span"), stash |-> h.stash,
               references |-> p.references]
         ELSE [err |-> "", tree |-> BuildTree(p.lines), stash |-> h.stash,
               references |-> p.references]))

\* convert(source) of an instance whose inline stash is inlineStash, while the
\* singletons hold htmlStash (the stash attributes), references (the references
\* attributes), safe_mode (the inline patterns) and safeMode
\* (RAWHTMLTEXTPOSTPROCESSOR).  For an empty source markdownToTree returns u""
\* and applyInlinePatterns raises AttributeError on it.
convert(source, inlineStash, htmlStash, references, safe_mode, safeMode) ==
    IF source = <<>>
    THEN ConvertResult("AttributeError", <<>>, inlineStash, htmlStash, references, <<>>, <<>>)
    ELSE With(markdownToTree(source, htmlStash, references), LAMBDA t :
         IF t.err # ""
         THEN ConvertResult(t.err, <<>>, inlineStash, t.stash, t.references, <<>>, <<>>)
         ELSE With(applyInlinePatterns(t.tree, InlineState(inlineStash, t.stash,
                                                           t.references, safe_mode)),
                   LAMBDA a :
                   ConvertResult("", convert_output(a.root, a.st.html, safeMode),
                                 a.st.inl, a.st.html, a.st.refs, a.st.fields,
                                 a.st.applied)))

(***************************************************************************)
(* The life of Markdown instances.  The processors and inline patterns are *)
(* module-level singletons: reset() of an instance points their stash,     *)
(* references and safe-mode attributes at that instance's objects, and     *)
(* every conversion works through those attributes.  globals.stash and     *)
(* globals.references name the instance whose objects the attributes hold. *)
(***************************************************************************)
Instances == {"A", "B"}

\* values of safe_mode: "" stands for False
SafeModes == {"", "escape"}

\* the number of calls a run makes
MaxCalls == 3

S_RefDef == <<"[", "a", "]", ":", " ", "/", "u">>
S_RefLink == <<"[", "x", "]", "[", "a", "]">>
S_Less == <<"<">>
S_BlockH == <<"<", "h", ">">>
S_OpenDiv == <<"<", "d", "i", "v", ">", "f", "o", "o">>
S_InlineHtml == <<"a", " ", "<", "b", ">">>
S_Emphasis == <<"*", "a", "*">>

\* the source texts given to convert
Sources == {S_RefDef, S_RefLink, S_Less, S_BlockH, S_OpenDiv, S_InlineHtml, S_Emphasis}

NoInstance ==
    [made |-> FALSE, safeMode |-> "", inlineStash |-> NewInlineStash,
     references |-> EmptyDict, htmlStash |-> NewHtmlStash]

NoCall == [op |-> "none", self |-> "none", source |-> <<>>, err |-> "", out |-> <<>>]

\* the objects of an instance at the entry of a call, and the attributes of
\* the singletons the call worked through
Observed(e, g) ==
    [entry |-> [inlineStash |-> e.inlineStash, htmlStash |-> e.htmlStash,
                references |-> e.references],
     used |-> g]

\* the singletons before any instance exists
NoGlobals == [stash |-> "none", references |-> "none", safe_mode |-> "", safeMode |-> ""]

LifeInit ==
    /\ pc = 0
    /\ engines = [i \in Instances |-> NoInstance]
    /\ globals = NoGlobals
    /\ io = NoCall
    /\ obs = Observed(NoInstance, NoGlobals)

\* the assignments of Markdown.reset to the singletons
reset_globals(self, safeMode) ==
    [stash |-> self, references |-> self, safe_mode |-> safeMode, safeMode |-> safeMode]

\* Markdown.reset on the instance record e
reset_instance(e) ==
    [e EXCEPT !.inlineStash = NewInlineStash,
              !.htmlStash = HtmlStash_rest(@),
              !.references = EmptyDict]

\* Markdown(safe_mode=safe_mode): __init__ builds the instance's objects and
\* ends with self.reset()
Markdown_init(self, safe_mode) ==
    /\ pc < MaxCalls
    /\ ~engines[self].made
    /\ pc' = pc + 1
    /\ engines' = [engines EXCEPT ![self] =
                       reset_instance([NoInstance EXCEPT !.made = TRUE,
                                                         !.safeMode = safe_mode])]
    /\ globals' = reset_globals(self, safe_mode)
    /\ io' = [NoCall EXCEPT !.op = "init", !.self = self]
    /\ obs' = Observed(engines[self], globals)

\* self.reset()
Markdown_reset(self) ==
    /\ pc < MaxCalls
    /\ engines[self].made
    /\ pc' = pc + 1
    /\ engines' = [engines EXCEPT ![self] = reset_instance(@)]
    /\ globals' = reset_globals(self, engines[self].safeMode)
    /\ io' = [NoCall EXCEPT !.op = "reset", !.self = self]
    /\ obs' = Observed(engines[self], globals)

\* self.convert(source): the inline stash is the instance's, the raw-fragment
\* stash and the reference table are those the singletons hold
Markdown_convert(self, source) ==
    /\ pc < MaxCalls
    /\ engines[self].made
    /\ \E r \in {convert(source, engines[self].inlineStash,
                         engines[globals.stash].htmlStash,
                         engines[globals.references].references,
                         globals.safe_mode, globals.safeMode)} :
          /\ engines' = [[[engines EXCEPT ![self].inlineStash = r.inlineStash]
                             EXCEPT ![globals.stash].htmlStash = r.htmlStash]
                             EXCEPT ![globals.references].references = r.references]
          /\ io' = [op |-> "convert", self |-> self, source |-> source,
                    err |-> r.err, out |-> r.out]
    /\ pc' = pc + 1
    /\ obs' = Observed(engines[self], globals)
    /\ UNCHANGED globals

Next ==
    \E self \in Instances :
        \/ \E safe_mode \in SafeModes : Markdown_init(self, safe_mode)
        \/ Markdown_reset(self)
        \/ \E source \in Sources : Markdown_convert(self, source)

Spec == LifeInit /\ [][Next]_vars

(***************************************************************************)
(* Claims about the life of instances (specification Spec)                 *)
(***************************************************************************)
\* C1: at the entry of every convert call on an instance, its inline-node
\* stash, its raw-fragment stash and its reference table are empty: nothing
\* an earlier convert call on that instance recorded is visible.
C1_EmptyAtEntry ==
    io.op = "convert" =>
        /\ obs.entry.inlineStash = NewInlineStash
        /\ obs.entry.htmlStash = NewHtmlStash
        /\ obs.entry.references = EmptyDict

\* C2: convert never raises for a source text of markup characters: every
\* call ends by returning a text.
C2_ConvertReturns == io.op = "convert" => io.err = ""

\* C3: a conversion on an instance works through that instance's restricted
\* mode, raw-fragment stash and reference table only, whatever other instance
\* was constructed or used before.
C3_OwnObjects ==
    io.op = "convert" =>
        /\ obs.used.stash = io.self
        /\ obs.used.references = io.self
        /\ obs.used.safe_mode = engines[io.self].safeMode
        /\ obs.used.safeMode = engines[io.self].safeMode

(***************************************************************************)
(* Runs that apply one operation to one input.  No instance is constructed *)
(* in them: io holds the input and then what the operation returned.       *)
(***************************************************************************)
NoEngines ==
    /\ engines = [i \in Instances |-> NoInstance]
    /\ globals = NoGlobals
    /\ obs = Observed(NoInstance, NoGlobals)

Range(s) == {s[i] : i \in 1..Len(s)}

\* the sequences of 1 .. n elements of S
SeqUpTo(S, n) == UNION {[1..k -> S] : k \in 1..n}

(***************************************************************************)
(* ReferencePreprocessor.run on lines that are reference definitions       *)
(* (specification SpecReference)                                           *)
(***************************************************************************)
\* the number of definition lines of a text
MaxRefLines == 3

RefLabels == {<<"a">>, <<"A">>, <<"b">>}
RefTargets == {<<"/", "u">>, <<"/", "v">>}
RefTitles == {<<>>, <<"T">>}
RefDefs == [label : RefLabels, href : RefTargets, title : RefTitles]

\* the line  [label]: href "title"
RefLine(d) ==
    <<"[">> \o d.label \o <<"]", ":", " ">> \o d.href
    \o (IF d.title # <<>> THEN <<" ", "\"">> \o d.title \o <<"\"">> ELSE <<>>)

RefInit ==
    /\ pc = 0
    /\ io \in {[op |-> "lines", defs |-> ds, new_text |-> <<>>, references |-> EmptyDict] :
                  ds \in SeqUpTo(RefDefs, MaxRefLines)}
    /\ NoEngines

ReferencePreprocessor_call ==
    /\ pc = 0
    /\ pc' = 1
    /\ \E r \in {ReferencePreprocessor_run([i \in 1..Len(io.defs) |-> RefLine(io.defs[i])],
                                           EmptyDict)} :
          io' = [io EXCEPT !.op = "ReferencePreprocessor.run",
                           !.new_text = r.new_text,
                           !.references = r.references]
    /\ UNCHANGED <<engines, globals, obs>>

SpecReference == RefInit /\ [][ReferencePreprocessor_call]_vars

\* the places of the definitions of defs whose case-folded label is key
DefsOf(defs, key) == {i \in 1..Len(defs) : Lower(defs[i].label) = key}

\* the table holds, for every case-folded label, the definition defs[Pick(..)]
TableHolds(Pick(_)) ==
    /\ io.new_text = <<>>
    /\ DOMAIN io.references = {Lower(io.defs[i].label) : i \in 1..Len(io.defs)}
    /\ \A key \in DOMAIN io.references :
          io.references[key] = [href |-> io.defs[Pick(DefsOf(io.defs, key))].href,
                                title |-> io.defs[Pick(DefsOf(io.defs, key))].title]

\* C4 (as the code has it): every definition line is taken out of the text,
\* and for definitions whose labels are equal after case folding the table
\* holds the target and title of the LAST one in line order.
C4_LastDefinitionWins ==
    io.op = "ReferencePreprocessor.run" => TableHolds(Greatest)

\* C4 as stated: the table keeps the target and title of the first one.
C4_FirstDefinitionWins ==
    io.op = "ReferencePreprocessor.run" => TableHolds(Least)

\* two definitions with labels a and A and different targets were extracted
C4_Collision ==
    /\ io.op = "ReferencePreprocessor.run"
    /\ \E i, j \in 1..Len(io.defs) :
          /\ i < j
          /\ io.defs[i].label # io.defs[j].label
          /\ Lower(io.defs[i].label) = Lower(io.defs[j].label)
          /\ io.defs[i].href # io.defs[j].href
          /\ DefsOf(io.defs, Lower(io.defs[i].label)) = {i, j}
          /\ io.references[Lower(io.defs[i].label)].href = io.defs[j].href

(***************************************************************************)
(* LinkPattern.sanatize_url on one URL (specification SpecUrl)             *)
(***************************************************************************)
\* the number of pieces a URL is put together from
MaxUrlPieces == 3

UrlPieces ==
    {<<"j", "a", "v", "a", "s", "c", "r", "i", "p", "t">>, <<"m", "a", "i", "l", "t", "o">>,
     <<"n", "e", "w", "s">>, <<"h", "t", "t", "p">>, <<":">>, <<"/", "/", "h">>,
     <<"/", "p">>, <<"a", "@", "b">>, <<"?">>, <<"#">>, <<";">>, <<"q">>}

U_JavascriptAlert ==
    <<"j", "a", "v", "a", "s", "c", "r", "i", "p", "t", ":", "a", "l", "e", "r", "t",
      "(", "1", ")">>
U_MailtoUser ==
    <<"m", "a", "i", "l", "t", "o", ":", "u", "s", "e", "r", "@", "e", "x", "a", "m",
      "p", "l", "e", ".", "c", "o", "m">>

Urls ==
    {Join(ps, <<>>) : ps \in SeqUpTo(UrlPieces, MaxUrlPieces)}
    \cup {U_JavascriptAlert, U_MailtoUser}

UrlInit ==
    /\ pc = 0
    /\ io \in {[op |-> "url", url |-> u, safe_mode |-> s, result |-> <<>>] :
                  u \in Urls, s \in SafeModes}
    /\ NoEngines

LinkPattern_sanatize_url ==
    /\ pc = 0
    /\ pc' = 1
    /\ \E r \in {sanatize_url(io.url, io.safe_mode)} :
          io' = [io EXCEPT !.op = "sanatize_url", !.result = r]
    /\ UNCHANGED <<engines, globals, obs>>

SpecUrl == UrlInit /\ [][LinkPattern_sanatize_url]_vars

\* the network location is non-empty or the scheme is one of empty, mailto,
\* news, and no colon is in the path, parameters, query or fragment
Permitted(url) ==
    /\ \/ urlparse(url).netloc # <<>>
       \/ urlparse(url).scheme \in {<<>>, <<"m", "a", "i", "l", "t", "o">>,
                                    <<"n", "e", "w", "s">>}
    /\ ~Contains(urlparse(url).path, <<":">>)
    /\ ~Contains(urlparse(url).params, <<":">>)
    /\ ~Contains(urlparse(url).query, <<":">>)
    /\ ~Contains(urlparse(url).fragment, <<":">>)

\* C9: in restricted mode the sanitizer returns the empty target for a URL
\* that is not permitted, so javascript:alert(1) is emptied and
\* mailto:user@example.com is kept; with restricted mode off it never empties
\* a target.
C9_SanitizerPolicy ==
    io.op = "sanatize_url" =>
        IF io.safe_mode # ""
        THEN /\ ~Permitted(io.url) => io.result = <<>>
             /\ io.url = U_JavascriptAlert => io.result = <<>>
             /\ io.url = U_MailtoUser => io.result = U_MailtoUser
        ELSE io.url # <<>> => io.result # <<>>

(***************************************************************************)
(* RawHtmlTextPostprocessor.run on a text with one placeholder per stored  *)
(* fragment (specification SpecRestore)                                    *)
(***************************************************************************)
\* the number of fragments in the stash
MaxFragments == 2

\* what the stash is given: markup (it opens with "<") and entities
Fragments == {<<"<", "b", ">">>, <<"&", "c", ";">>, <<"<", "a", "\"", ">">>}

\* values of safe_mode: "" stands for False, "replace" for any other value
RestoreModes == {"", "escape", "remove", "replace"}

\* a placeholder within a line of text, or alone in a paragraph
SlotForms == {"inline", "block"}

Slot(form, i) ==
    IF form = "block"
    THEN <<"<", "p", ">">> \o HTML_PLACEHOLDER(i) \o <<"\n", "<", "/", "p", ">">>
    ELSE HTML_PLACEHOLDER(i)

\* the pieces with an x before, between and after them
Between(pieces) == <<"x">> \o Join(pieces, <<"x">>) \o <<"x">>

RestoreInit ==
    /\ pc = 0
    /\ io \in UNION {{[op |-> "text",
                       stash |-> [html_counter |-> Len(bs), rawHtmlBlocks |-> bs],
                       forms |-> fs,
                       safeMode |-> mode,
                       text |-> Between([i \in 1..Len(bs) |-> Slot(fs[i], i - 1)]),
                       result |-> <<>>] :
                         mode \in RestoreModes, fs \in [1..Len(bs) -> SlotForms]} :
                     bs \in SeqUpTo([html : Fragments, safe : BOOLEAN], MaxFragments)}
    /\ NoEngines

RawHtmlTextPostprocessor_call ==
    /\ pc = 0
    /\ pc' = 1
    /\ \E r \in {RawHtmlTextPostprocessor_run(io.text, io.stash, io.safeMode)} :
          io' = [io EXCEPT !.op = "RawHtmlTextPostprocessor.run", !.result = r]
    /\ UNCHANGED <<engines, globals, obs>>

SpecRestore == RestoreInit /\ [][RawHtmlTextPostprocessor_call]_vars

\* the escaped form of a character
EscapedChar(c) ==
    CASE c = "&" -> <<"&", "a", "m", "p", ";">>
      [] c = "<" -> <<"&", "l", "t", ";">>
      [] c = ">" -> <<"&", "g", "t", ";">>
      [] c = "\"" -> <<"&", "q", "u", "o", "t", ";">>
      [] OTHER -> <<c>>

\* what the claim says takes the place of the placeholder of fragment b
Derived(b, mode) ==
    IF mode = "" \/ b.safe THEN b.html
    ELSE IF mode = "escape" THEN MapConcat(EscapedChar, b.html)
    ELSE IF mode = "remove" THEN <<>>
    ELSE HTML_REMOVED_TEXT

\* C10: the restore pass puts in the place of the placeholder with index i
\* content derived from the i-th stored fragment (with a line end after it
\* when the placeholder stood alone in a paragraph): with restricted mode off
\* the fragment verbatim; in restricted mode, for a fragment not flagged
\* safe, its escaped form (escape), the empty string (remove) or the fixed
\* removal marker (any other value), never the raw fragment itself.
C10_Restore ==
    io.op = "RawHtmlTextPostprocessor.run" =>
        /\ io.result =
              Between([i \in 1..Len(io.forms) |->
                          Derived(io.stash.rawHtmlBlocks[i], io.safeMode)
                          \o (IF io.forms[i] = "block" THEN <<"\n">> ELSE <<>>)])
        /\ \A i \in 1..Len(io.forms) :
              (io.safeMode # "" /\ ~io.stash.rawHtmlBlocks[i].safe) =>
                  /\ Derived(io.stash.rawHtmlBlocks[i], io.safeMode)
                        # io.stash.rawHtmlBlocks[i].html
                  /\ ~Contains(io.result, io.stash.rawHtmlBlocks[i].html)
                     \/ \E j \in 1..Len(io.forms) :
                           /\ io.stash.rawHtmlBlocks[j].html = io.stash.rawHtmlBlocks[i].html
                           /\ io.stash.rawHtmlBlocks[j].safe

\* two fragments, the first not flagged safe and escaped, the second flagged
\* safe and restored as stored
C10_EscapedAndKept ==
    /\ io.op = "RawHtmlTextPostprocessor.run"
    /\ io.safeMode = "escape"
    /\ Len(io.forms) = 2
    /\ ~io.stash.rawHtmlBlocks[1].safe
    /\ io.stash.rawHtmlBlocks[2].safe
    /\ io.forms[1] = "block"
    /\ Contains(io.result, <<"&", "l", "t", ";">>)
    /\ Contains(io.result, io.stash.rawHtmlBlocks[2].html)

(***************************************************************************)
(* markdownToTree on a source that is one list (specification SpecList)    *)
(***************************************************************************)
\* the number of items of a list
MaxItems == 4

ListTags == {"ul", "ol"}

\* what follows the last item: nothing, a blank line and an indented
\* paragraph (it belongs to the last item), or a blank line and a paragraph
\* that is not indented (it follows the list)
ListTails == {"none", "indented", "text"}

ItemText(i) == <<<<"a">>, <<"b">>, <<"c">>, <<"d">>, <<"e">>, <<"f">>>>[i]

ItemLine(tag, i) ==
    (IF tag = "ul" THEN <<"-", " ">> ELSE Decimal(i) \o <<".", " ">>) \o ItemText(i)

TailText(tail) ==
    CASE tail = "indented" -> <<"\n", "\n", " ", " ", " ", " ", "z">>
      [] tail = "text" -> <<"\n", "\n", "z">>
      [] OTHER -> <<>>

\* the source from item i on: gaps[i] tells whether a blank line separates
\* item i from item i + 1
RECURSIVE ListSource(_, _, _, _, _)
ListSource(tag, n, gaps, tail, i) ==
    ItemLine(tag, i)
    \o (IF i = n THEN TailText(tail)
        ELSE (IF gaps[i] THEN <<"\n", "\n">> ELSE <<"\n">>)
             \o ListSource(tag, n, gaps, tail, i + 1))

ListInit ==
    /\ pc = 0
    /\ io \in UNION {{[op |-> "source", tag |-> tag, n |-> n, gaps |-> gaps,
                       tail |-> tail, source |-> ListSource(tag, n, gaps, tail, 1),
                       err |-> "", tree |-> Element("span")] :
                         tag \in ListTags, tail \in ListTails,
                         gaps \in [1..(n - 1) -> BOOLEAN]} :
                     n \in 1..MaxItems}
    /\ NoEngines

markdownToTree_call ==
    /\ pc = 0
    /\ pc' = 1
    /\ \E t \in {markdownToTree(io.source, NewHtmlStash, EmptyDict)} :
          io' = [io EXCEPT !.op = "markdownToTree", !.err = t.err, !.tree = t.tree]
    /\ UNCHANGED <<engines, globals, obs>>

SpecList == ListInit /\ [][markdownToTree_call]_vars

\* the tree holds the list, with n items, as its first node; when loose every
\* item has its text in a leading paragraph node, otherwise every item has
\* its text on the item node and no child
ListShape(loose) ==
    /\ io.err = ""
    /\ io.tree.children # <<>>
    /\ io.tree.children[1].tag = io.tag
    /\ Len(io.tree.children[1].children) = io.n
    /\ \A i \in 1..io.n :
          /\ io.tree.children[1].children[i].tag = "li"
          /\ IF loose
             THEN /\ io.tree.children[1].children[i].text = <<>>
                  /\ io.tree.children[1].children[i].children # <<>>
                  /\ io.tree.children[1].children[i].children[1].tag = "p"
                  /\ io.tree.children[1].children[i].children[1].text = ItemText(i)
             ELSE /\ io.tree.children[1].children[i].text = ItemText(i)
                  /\ io.tree.children[1].children[i].children = <<>>

BlankBetweenItems == \E i \in 1..(io.n - 1) : io.gaps[i]

\* C7 (as the code has it): a list is tight exactly when no blank line
\* separates its items AND no blank line inside it is followed by an indented
\* continuation paragraph; in a tight list every item's text is on the item
\* node with no paragraph child, otherwise every item of the list (those
\* before the blank line too) has its first paragraph in a paragraph node.
C7_TightUnlessBlankInside ==
    io.op = "markdownToTree" => ListShape(BlankBetweenItems \/ io.tail = "indented")

\* C7 as stated: a list is tight exactly when no blank line separates its
\* items.
C7_TightIffNoBlankBetweenItems ==
    io.op = "markdownToTree" => ListShape(BlankBetweenItems)

\* three items or more with the only blank line after the second: the first
\* item, before the blank line, has its paragraph wrapped
C7_LooseBeforeBlank ==
    /\ io.op = "markdownToTree"
    /\ io.n >= 3
    /\ \A i \in 1..(io.n - 1) : io.gaps[i] <=> i = 2
    /\ io.tail = "none"
    /\ io.tree.children[1].children[1].text = <<>>
    /\ io.tree.children[1].children[1].children[1].tag = "p"
    /\ io.tree.children[1].children[1].children[1].text = ItemText(1)

(***************************************************************************)
(* applyInlinePatterns on a tree with one paragraph, whose text is the     *)
(* field (specifications SpecInline and SpecRefLink)                       *)
(***************************************************************************)
\* the number of pieces a field is put together from
MaxPieces == 2

\* the texts of code spans
CodeTexts == {<<"a">>, <<"{", "@", "i", "d", "=", "x", "}">>}

CodeSpan(c) == <<TICK>> \o c \o <<TICK>>

\* one piece for every inline pattern, and plain text
FieldPieces ==
    {CodeSpan(c) : c \in CodeTexts}
    \cup {<<"\\", "*">>,
          <<"[", "x", "]", "[", "a", "]">>,
          <<"[", "x", "]", "(", "u", ")">>,
          <<"!", "[", "x", "]", "(", "u", ")">>,
          <<"!", "[", "x", "]", "[", "a", "]">>,
          <<"<", "f", "t", "p", ":", "/", "/", "a", ">">>,
          <<"<", "a", "@", "b", ">">>,
          <<" ", " ", "\n">>,
          <<" ", " ">>,
          <<"<", "b", ">">>,
          <<"&", "c", ";">>,
          <<" ", "*", " ">>,
          <<"*", "*", "*", "a", "*", "*", "*">>,
          <<"*", "*", "*", "\\", TICK, "a", "\\", TICK, "*", "*", "*">>,
          <<"*", "*", "a", "*", "*">>,
          <<"*", "a", "*">>,
          <<"_", "a", "_">>,
          <<"x">>}

\* the reference table of the fields: the label a
FieldReferences == DictSet(EmptyDict, <<"a">>, [href |-> <<"/", "u">>, title |-> <<>>])

\* the input of a run: the field, the reference table and the restricted
\* mode of the patterns
InlineInput(field, refs, safe) ==
    [op |-> "field", field |-> field, refs |-> refs, safe |-> safe,
     root |-> Element("span"), inl |-> NewInlineStash, fields |-> <<>>,
     levels |-> <<>>, applied |-> <<>>]

InlineInit ==
    /\ pc = 0
    /\ io \in {InlineInput(Join(ps, <<>>), FieldReferences, "") :
                  ps \in SeqUpTo(FieldPieces, MaxPieces)}
    /\ NoEngines

Markdown_applyInlinePatterns ==
    /\ pc = 0
    /\ pc' = 1
    /\ \E a \in {applyInlinePatterns(
                     AppendChild(Element("span"), [Element("p") EXCEPT !.text = io.field]),
                     InlineState(NewInlineStash, NewHtmlStash, io.refs, io.safe))} :
          io' = [io EXCEPT !.op = "applyInlinePatterns", !.root = a.root,
                           !.inl = a.st.inl, !.fields = a.st.fields,
                           !.levels = a.st.levels, !.applied = a.st.applied]
    /\ UNCHANGED <<engines, globals, obs>>

SpecInline == InlineInit /\ [][Markdown_applyInlinePatterns]_vars

\* the patterns in the order of C5, with its two line-break patterns named by
\* what they match: mid-text is LINE_BREAK_PATTERN, field end is
\* LINE_BREAK_PATTERN_2
StatedOrder ==
    <<BACKTICK_PATTERN, ESCAPE_PATTERN, REFERENCE_PATTERN, LINK_PATTERN,
      IMAGE_LINK_PATTERN, IMAGE_REFERENCE_PATTERN, AUTOLINK_PATTERN, AUTOMAIL_PATTERN,
      LINE_BREAK_PATTERN, LINE_BREAK_PATTERN_2, HTML_PATTERN, ENTITY_PATTERN,
      NOT_STRONG_PATTERN, STRONG_EM_PATTERN, STRONG_PATTERN, EMPHASIS_PATTERN,
      EMPHASIS_PATTERN_2>>

\* the same with the line break at field end ahead of the one mid-text
CodeOrder ==
    <<BACKTICK_PATTERN, ESCAPE_PATTERN, REFERENCE_PATTERN, LINK_PATTERN,
      IMAGE_LINK_PATTERN, IMAGE_REFERENCE_PATTERN, AUTOLINK_PATTERN, AUTOMAIL_PATTERN,
      LINE_BREAK_PATTERN_2, LINE_BREAK_PATTERN, HTML_PATTERN, ENTITY_PATTERN,
      NOT_STRONG_PATTERN, STRONG_EM_PATTERN, STRONG_PATTERN, EMPHASIS_PATTERN,
      EMPHASIS_PATTERN_2>>

Matches(pattern, field) == re_match(pattern.compiled_re, pattern.ngroups, field).ok

\* the place in order of its first pattern that matches the field, -1 for none
FirstMatching(order, field) == Least({k \in 1..Len(order) : Matches(order[k], field)})

\* the engine consults the patterns of order, in that order, and the pattern
\* it applies first to the field is the earliest of order that matches it
ConsultsInOrder(order) ==
    /\ inlinePatterns = order
    /\ IF FirstMatching(order, io.field) < 0 THEN io.applied = <<>>
       ELSE /\ io.applied # <<>>
            /\ inlinePatterns[io.applied[1] + 1] = order[FirstMatching(order, io.field)]

C6_CodeTextKept ==
    io.op = "applyInlinePatterns" =>
        \A c \in CodeTexts :
            io.field = CodeSpan(c) =>
                /\ c \notin Range(io.fields)
                /\ Len(io.root.children[1].children) = 1
                /\ io.root.children[1].children[1].tag = "code"
                /\ io.root.children[1].children[1].text = Strip(c)

\* reference-style links and images: the link text, the label ("" for an
\* empty one), the stored targets and titles
LinkTexts == {<<"x">>, <<"A">>}
LinkLabels == {<<>>, <<"a">>, <<"A">>, <<"b">>}
StoredTargets == {<<"/", "u">>, <<"j", "a", "v", "a", "s", "c", "r", "i", "p", "t", ":", "x">>,
                  <<"#">>}
StoredTitles == {<<>>, <<"T">>}

\* no definition, or one definition of the label a
ReferenceTables ==
    {EmptyDict}
    \cup {DictSet(EmptyDict, <<"a">>, [href |-> h, title |-> t]) :
             h \in StoredTargets, t \in StoredTitles}

\* [text][label] and ![text][label]
ReferenceField(img, text, label) ==
    (IF img THEN <<"!">> ELSE <<>>) \o <<"[">> \o text \o <<"]", "[">> \o label \o <<"]">>

RefLinkInit ==
    /\ pc = 0
    /\ io \in {InlineInput(ReferenceField(img, text, label), refs, safe) :
                  img \in BOOLEAN, text \in LinkTexts, label \in LinkLabels,
                  refs \in ReferenceTables, safe \in SafeModes}
    /\ NoEngines

SpecRefLink == RefLinkInit /\ [][Markdown_applyInlinePatterns]_vars

\* the dictionary of the given keys and values
Attributes(keys, values) ==
    [k \in {keys[i] : i \in 1..Len(keys)} |->
        values[CHOOSE i \in 1..Len(keys) : keys[i] = k]]

\* the node of a resolved reference: an a with href, a title when the stored
\* title is not empty, and the link text; an img with src, the same title
\* and the link text as alt
ReferenceNode(img, text, target, title) ==
    IF img
    THEN [Element("img") EXCEPT !.attrib =
             IF title # <<>>
             THEN Attributes(<<<<"s", "r", "c">>, <<"a", "l", "t">>, <<"t", "i", "t", "l", "e">>>>,
                             <<target, text, title>>)
             ELSE Attributes(<<<<"s", "r", "c">>, <<"a", "l", "t">>>>, <<target, text>>)]
    ELSE [Element("a") EXCEPT !.text = text,
                              !.attrib =
             IF title # <<>>
             THEN Attributes(<<<<"h", "r", "e", "f">>, <<"t", "i", "t", "l", "e">>>>,
                             <<target, title>>)
             ELSE Attributes(<<<<"h", "r", "e", "f">>>>, <<target>>)]

\* the case-folded label, or for an empty label the case-folded link text
ReferenceId(text, label) == IF label # <<>> THEN Lower(label) ELSE Lower(text)

\* a resolved reference leaves the paragraph with the node alone, carrying
\* Target(stored target) and the stored title; an unresolved one leaves the
\* field as the text of the paragraph and the inline stash empty
ReferenceOutcome(Target(_)) ==
    \A img \in BOOLEAN, text \in LinkTexts, label \in LinkLabels :
        io.field = ReferenceField(img, text, label) =>
            IF ReferenceId(text, label) \in DOMAIN io.refs
            THEN /\ io.root.children[1].text = <<>>
                 /\ io.root.children[1].children =
                       <<ReferenceNode(img, text,
                                       Target(io.refs[ReferenceId(text, label)].href),
                                       io.refs[ReferenceId(text, label)].title)>>
            ELSE /\ io.root.children[1].text = io.field
                 /\ io.root.children[1].children = <<>>
                 /\ io.inl = NewInlineStash

SanitizedTarget(href) == sanatize_url(href, io.safe)
VerbatimTarget(href) == href

\* C8 (as the code has it): a reference-style link or image whose case-folded
\* label (for an empty label its case-folded link text) is in the reference
\* table yields a node carrying the stored title and the stored target AS
\* THE URL SANITIZER RETURNS IT; when the label is not in the table the
\* field text and the inline stash are left unchanged.
C8_ResolvedThroughSanitizer ==
    io.op = "applyInlinePatterns" => ReferenceOutcome(SanitizedTarget)

\* C8 as stated: the node carries the stored target.
C8_ResolvedVerbatim ==
    io.op = "applyInlinePatterns" => ReferenceOutcome(VerbatimTarget)

\* an image resolved by its case-folded link text, with the stored title
C8_ResolvedByText ==
    /\ io.op = "applyInlinePatterns"
    /\ io.field = ReferenceField(TRUE, <<"A">>, <<>>)
    /\ <<"a">> \in DOMAIN io.refs
    /\ io.refs[<<"a">>].title # <<>>
    /\ io.root.children[1].children # <<>>
    /\ io.root.children[1].children[1].tag = "img"
    /\ io.root.children[1].children[1].attrib[<<"t", "i", "t", "l", "e">>] = <<"T">>

(***************************************************************************)
(* markdownToTree and convert of a new instance on one source text         *)
(* (specification SpecSource)                                              *)
(***************************************************************************)
\* the number of pieces a source text is put together from
MaxSourcePieces == 3

\* the text of the placeholder InlineStash gives the first node, an em
ShapedInline ==
    <<"i", "n", "l", "i", "n", "e", ":", "S", "i", "m", "p", "l", "e", "T", "a", "g",
      "P", "a", "t", "t", "e", "r", "n", ":", "0", "0", "0", "0">>

\* markup, plain text, the reserved code points alone, and texts shaped like
\* the placeholders of the first inline node and the first raw fragment
SourcePieces ==
    {<<"*", "a", "*">>, <<"<", "b", ">">>, <<"x">>, <<" ">>, <<STX>>, <<ETX>>,
     <<STX>> \o ShapedInline \o <<ETX>>,
     <<STX, "h", "t", "m", "l", ":", "0", ETX>>}

\* the input of a run; returned tells what markdownToTree returned, a tree
\* or the empty text u""
SourceInput(source) ==
    [op |-> "source", source |-> source, fixed |-> <<>>, returned |-> "",
     err |-> "", tree |-> Element("span"), inl |-> NewInlineStash, out |-> <<>>]

SourceInit ==
    /\ pc = 0
    /\ io \in {SourceInput(Join(ps, <<>>)) : ps \in SeqUpTo(SourcePieces, MaxSourcePieces)}
              \cup {SourceInput(<<>>)}
    /\ NoEngines

\* markdownToTree(source) of a new instance: self.source after the fixup and
\* what the call returned; the inline stash is not among what it works on
Markdown_markdownToTree ==
    /\ pc = 0
    /\ pc' = 1
    /\ IF io.source = <<>>
       THEN io' = [io EXCEPT !.op = "markdownToTree", !.returned = "text"]
       ELSE \E t \in {markdownToTree(io.source, NewHtmlStash, EmptyDict)} :
               io' = [io EXCEPT !.op = "markdownToTree", !.returned = "tree",
                                !.fixed = FixupSource(io.source),
                                !.err = t.err, !.tree = t.tree]
    /\ UNCHANGED <<engines, globals, obs>>

\* convert(source) of a new instance with restricted mode off
Markdown_convert_source ==
    /\ pc = 0
    /\ pc' = 1
    /\ \E r \in {convert(io.source, NewInlineStash, NewHtmlStash, EmptyDict, "", "")} :
          io' = [io EXCEPT !.op = "convert", !.err = r.err, !.out = r.out,
                           !.inl = r.inlineStash]
    /\ UNCHANGED <<engines, globals, obs>>

SourceNext == Markdown_markdownToTree \/ Markdown_convert_source

SpecSource == SourceInit /\ [][SourceNext]_vars

\* the text without the reserved code points
Unreserved(s) == SelectSeq(s, LAMBDA c : c \notin {STX, ETX})

\* the texts and tails of the nodes of a tree
RECURSIVE TextsOf(_)
TextsOf(node) ==
    {node.text, node.tail} \cup UNION {TextsOf(node.children[k]) : k \in 1..Len(node.children)}

\* C11: the reserved code points of the source are removed before any
\* preprocessor runs: the fixed-up source and the texts of the tree hold
\* none, so that a conversion gives what it gives for the source without
\* them (nothing, when nothing else is in the source), and source text shaped
\* like a placeholder is never resolved as one.
C11_ReservedRemoved ==
    /\ (io.op = "markdownToTree" /\ io.returned = "tree") =>
          /\ STX \notin Range(io.fixed) /\ ETX \notin Range(io.fixed)
          /\ \A text \in TextsOf(io.tree) : STX \notin Range(text) /\ ETX \notin Range(text)
    /\ (io.op = "convert" /\ io.source # <<>>) =>
          /\ io.err = ""
          /\ STX \notin Range(io.out) /\ ETX \notin Range(io.out)
          /\ IF Unreserved(io.source) = <<>> THEN io.out = <<>>
             ELSE io.out = convert(Unreserved(io.source), NewInlineStash, NewHtmlStash,
                                   EmptyDict, "", "").out

\* an emphasis followed by text shaped like its placeholder: the text is in
\* the output as it is
C11_ShapedStaysLiteral ==
    /\ io.op = "convert"
    /\ io.source = <<"*", "a", "*", STX>> \o ShapedInline \o <<ETX>>
    /\ io.err = ""
    /\ Len(io.inl) = 1
    /\ Contains(io.out, <<"<", "/", "e", "m", ">">> \o ShapedInline)

\* C14: for an empty source, for which markdownToTree returns its empty
\* result as for a source that cannot be decoded, convert returns an empty
\* text instead of failing.
C14_EmptySourceEmptyResult ==
    (io.op = "convert" /\ io.source = <<>>) => (io.err = "" /\ io.out = <<>>)

\* C15: markdownToTree resolves nothing inline: the inline stash is as it
\* was, no text of the tree holds an inline placeholder, and the paragraph
\* of a one-line source holds the line as the fixup left it.
C15_TreeUnresolved ==
    (io.op = "markdownToTree" /\ io.returned = "tree" /\ io.err = "") =>
        /\ io.inl = NewInlineStash
        /\ \A text \in TextsOf(io.tree) : ~Contains(text, INLINE_PLACEHOLDER_PREFIX)
        /\ Strip(Unreserved(io.source)) # <<>> =>
              /\ Len(io.tree.children) = 1
              /\ io.tree.children[1].tag = "p"
              /\ io.tree.children[1].children = <<>>
              /\ Strip(io.tree.children[1].text) = Strip(Unreserved(io.source))

\* the tree of a source with emphasis and raw inline markup
C15_MarkupInTree ==
    /\ io.op = "markdownToTree"
    /\ io.returned = "tree"
    /\ io.source = <<"*", "a", "*", " ", "<", "b", ">">>
    /\ io.tree.children[1].text = io.source

(***************************************************************************)
(* InlineStash as the class has it: _nodes is a dictionary from id to node *)
(* (specification SpecStash).  The engine above keeps the nodes in the     *)
(* order of their ids.                                                     *)
(***************************************************************************)
\* the number of calls on a stash
MaxAdds == 4

\* an id that does not look at the stash
FirstId(nodes) == Fmt4(0)

\* id = "%04d" % len(self._nodes)
NextId(nodes) == Fmt4(Cardinality(DOMAIN nodes))

\* InlineStash._genPlaceholder(type) and InlineStash.add(node, type) on the
\* dictionary nodes: the dictionary afterwards, the id and the placeholder
InlineStash_dict_add(nodes, node, type) ==
    [nodes |-> DictSet(nodes, NextId(nodes), node),
     id |-> NextId(nodes),
     pholder |-> INLINE_PLACEHOLDER_PREFIX \o TypeName(type) \o <<":">> \o NextId(nodes)
                 \o INLINE_PLACEHOLDER_SUFFIX]

\* the nodes and pattern types of the calls
StashedNodes ==
    {[node |-> StrNode(<<"*">>), type |-> "SimpleTextPattern"],
     [node |-> ElNode(Element("em")), type |-> "SimpleTagPattern"],
     [node |-> ElNode(Element("code")), type |-> "BacktickPattern"]}

\* io.nodes is _nodes; io.added holds, for every add since the stash was
\* made or reset, the id it returned and the node it was given
StashInit ==
    /\ pc = 0
    /\ io = [op |-> "InlineStash", nodes |-> EmptyDict, added |-> <<>>, pholder |-> <<>>]
    /\ NoEngines

InlineStash_add_call(n) ==
    /\ pc < MaxAdds
    /\ pc' = pc + 1
    /\ \E a \in {InlineStash_dict_add(io.nodes, n.node, n.type)} :
          io' = [op |-> "add", nodes |-> a.nodes,
                 added |-> Append(io.added, [id |-> a.id, node |-> n.node]),
                 pholder |-> a.pholder]
    /\ UNCHANGED <<engines, globals, obs>>

\* InlineStash.rest()
InlineStash_rest_call ==
    /\ pc < MaxAdds
    /\ pc' = pc + 1
    /\ io' = [op |-> "rest", nodes |-> EmptyDict, added |-> <<>>, pholder |-> <<>>]
    /\ UNCHANGED <<engines, globals, obs>>

StashNext ==
    \/ \E n \in StashedNodes : InlineStash_add_call(n)
    \/ InlineStash_rest_call

SpecStash == StashInit /\ [][StashNext]_vars

\* the number an id is the text of
IdNumber(id) == CHOOSE n \in 0..(MaxAdds + 1) : Fmt4(n) = id

\* C13: every add returns a placeholder whose id differs from the id of
\* every earlier add and is greater than all of them, and no add overwrites
\* an entry already in the stash: every node added is still under its id.
C13_FreshIds ==
    io.op = "add" =>
        /\ \A k \in 1..(Len(io.added) - 1) :
              /\ io.added[k].id # io.added[Len(io.added)].id
              /\ IdNumber(io.added[k].id) < IdNumber(io.added[Len(io.added)].id)
        /\ \A k \in 1..Len(io.added) :
              /\ io.added[k].id \in DOMAIN io.nodes
              /\ io.nodes[io.added[k].id] = io.added[k].node
        /\ Cardinality(DOMAIN io.nodes) = Len(io.added)
        /\ Slice(io.pholder, Len(io.pholder) - 5, Len(io.pholder) - 1)
              = io.added[Len(io.added)].id

\* a third add, of a node equal to the first one
C13_ThirdAdd ==
    /\ io.op = "add"
    /\ Len(io.added) = 3
    /\ io.added[3].node = io.added[1].node
    /\ io.added[3].id = <<"0", "0", "0", "2">>

(***************************************************************************)
(* _processPlaceholders on one text, with an inline stash of three nodes   *)
(* (specification SpecPlaceholders)                                        *)
(***************************************************************************)
\* the number of pieces a text with placeholders is put together from
MaxPlaceholderPieces == 4

\* the stash: an element, a string, an element; ids 0000, 0001, 0002
ResolvedStash ==
    <<ElNode(Element("em")), StrNode(<<"s">>), ElNode(Element("code"))>>

\* the pieces: the prefix, the suffix, a type with its colon, ids with the
\* suffix (0007 is not in the stash), a colon, plain text
PlaceholderPieces ==
    {INLINE_PLACEHOLDER_PREFIX, INLINE_PLACEHOLDER_SUFFIX, <<"T", ":">>,
     <<"0", "0", "0", "0">> \o INLINE_PLACEHOLDER_SUFFIX,
     <<"0", "0", "0", "1">> \o INLINE_PLACEHOLDER_SUFFIX,
     <<"0", "0", "0", "7">> \o INLINE_PLACEHOLDER_SUFFIX,
     <<":">>, <<"x">>}

PlaceholdersInit ==
    /\ pc = 0
    /\ io \in {[op |-> "data", data |-> Join(ps, <<>>), text |-> <<>>, result |-> <<>>] :
                  ps \in SeqUpTo(PlaceholderPieces, MaxPlaceholderPieces)}
    /\ NoEngines

\* _processPlaceholders(data, parent) for a parent without text: the text of
\* parent afterwards and the list returned
Markdown_processPlaceholders ==
    /\ pc = 0
    /\ pc' = 1
    /\ \E r \in {processPlaceholders(io.data, <<>>, ResolvedStash)} :
          io' = [io EXCEPT !.op = "processPlaceholders", !.text = r.text,
                           !.result = r.result]
    /\ UNCHANGED <<engines, globals, obs>>

SpecPlaceholders == PlaceholdersInit /\ [][Markdown_processPlaceholders]_vars

\* the occurrence of the prefix at index i of data has a suffix behind it,
\* exactly one colon between the prefix and the nearest suffix, and after
\* the colon an id of the stash
SuffixAfter(data, i) == Find(data, INLINE_PLACEHOLDER_SUFFIX, i + 1)

Inside(data, i) ==
    Slice(data, i + Len(INLINE_PLACEHOLDER_PREFIX), SuffixAfter(data, i))

ColonsOf(text) == {k \in 1..Len(text) : text[k] = ":"}

KnownAt(data, i) ==
    /\ SuffixAfter(data, i) # -1
    /\ Cardinality(ColonsOf(Inside(data, i))) = 1
    /\ \E n \in 0..(Len(ResolvedStash) - 1) :
          From(Inside(data, i), Greatest(ColonsOf(Inside(data, i)))) = Fmt4(n)

NodeAtOccurrence(data, i) ==
    ResolvedStash[1 + CHOOSE n \in 0..(Len(ResolvedStash) - 1) :
                          From(Inside(data, i), Greatest(ColonsOf(Inside(data, i)))) = Fmt4(n)]

\* what the claim says data from pos on turns into, as one sequence: the
\* characters of literal text, and the tag of an element in the place of
\* the placeholder of that element
RECURSIVE Resolved(_, _)
Resolved(data, pos) ==
    With(Find(data, INLINE_PLACEHOLDER_PREFIX, pos), LAMBDA i :
    IF i = -1 THEN From(data, pos)
    ELSE IF KnownAt(data, i)
    THEN Slice(data, pos, i)
         \o (IF NodeAtOccurrence(data, i).isstr THEN NodeAtOccurrence(data, i).str
             ELSE <<NodeAtOccurrence(data, i).el.tag>>)
         \o Resolved(data, SuffixAfter(data, i) + Len(INLINE_PLACEHOLDER_SUFFIX))
    ELSE Slice(data, pos, i + Len(INLINE_PLACEHOLDER_PREFIX))
         \o Resolved(data, i + Len(INLINE_PLACEHOLDER_PREFIX)))

\* the text of the parent and the nodes returned, each with its tail, as one
\* sequence
TagAndTail(node) == <<node.tag>> \o node.tail

Emitted(text, result) == text \o MapConcat(TagAndTail, result)

\* C12: placeholder resolution of any text ends, and every occurrence of the
\* prefix that has no suffix behind it, is not of the form type:id or has an
\* id that is not in the stash is emitted, with the text around it, as
\* literal text in the original order; the occurrences with a known id, and
\* only they, are replaced by their node or string.
C12_MalformedStaysLiteral ==
    io.op = "processPlaceholders" =>
        /\ Emitted(io.text, io.result) = Resolved(io.data, 0)
        /\ \A k \in 1..Len(io.result) : io.result[k].text = <<>> /\ io.result[k].children = <<>>

\* a prefix alone, then a placeholder with a known id
C12_MixedOccurrences ==
    /\ io.op = "processPlaceholders"
    /\ io.data = INLINE_PLACEHOLDER_PREFIX \o INLINE_PLACEHOLDER_PREFIX
                 \o <<"T", ":", "0", "0", "0", "0">> \o INLINE_PLACEHOLDER_SUFFIX
    /\ io.text = INLINE_PLACEHOLDER_PREFIX
    /\ Len(io.result) = 1
    /\ io.result[1].tag = "em"

(***************************************************************************)
(* The while loop of _handleInline taken one iteration at a time: the      *)
(* pattern at patternIndex is applied to the field from startIndex on, and *)
(* the index moves on only when the pattern did not match.  io.before is   *)
(* the loop state the iteration began with, io.kind what the handler of    *)
(* the pattern gave.                                                       *)
(***************************************************************************)
MaxLoopPieces == 2

MaxIterations == 40

LoopPieces ==
    {<<"*", "a", "*">>, <<"*", "*", "a", "*", "*">>, <<TICK, "a", TICK>>,
     <<"*", "*", "*", "a", "*", "*", "*">>, <<"\\", "*">>, <<"<", "b", ">">>, <<"&", "c", ";">>,
     <<"[", "x", "]", "[", "a", "]">>, <<"[", "x", "]", "[", "b", "]">>,
     <<"!", "[", "x", "]", "[", "b", "]">>, <<"x">>, <<" ">>}

LoopState(data, patternIndex, startIndex, st) ==
    [data |-> data, patternIndex |-> patternIndex, startIndex |-> startIndex, st |-> st]

LoopInput(field) ==
    [op |-> "field", data |-> field, patternIndex |-> 0, startIndex |-> 0,
     st |-> InlineState(NewInlineStash, NewHtmlStash, FieldReferences, ""),
     kind |-> "",
     before |-> LoopState(field, 0, 0,
                          InlineState(NewInlineStash, NewHtmlStash, FieldReferences, ""))]

LoopInit ==
    /\ pc = 0
    /\ io \in {LoopInput(Join(ps, <<>>)) : ps \in SeqUpTo(LoopPieces, MaxLoopPieces)}
    /\ NoEngines

\* the pattern an iteration applies, the text it is applied to, the match
\* and what the handler gives for the match
LoopPattern(b) == inlinePatterns[b.patternIndex + 1]

LoopRest(b) == From(b.data, b.startIndex)

LoopMatch(b) == re_match(LoopPattern(b).compiled_re, LoopPattern(b).ngroups, LoopRest(b))

LoopHandled(b) == handleMatch(LoopPattern(b), LoopMatch(b), LoopRest(b), b.st)

\* one iteration of "while patternIndex < len(self.inlinePatterns)"
handleInline_iteration ==
    /\ pc < MaxIterations
    /\ io.op \in {"field", "iteration"}
    /\ io.patternIndex < Len(inlinePatterns)
    /\ \E b \in {LoopState(io.data, io.patternIndex, io.startIndex, io.st)} :
       \E r \in {applyInline(LoopPattern(b), b.data, b.patternIndex, b.startIndex, b.st)} :
          io' = [op |-> "iteration", data |-> r.data,
                 patternIndex |-> IF r.matched THEN b.patternIndex ELSE b.patternIndex + 1,
                 startIndex |-> r.startIndex, st |-> r.st,
                 kind |-> IF LoopMatch(b).ok THEN LoopHandled(b).kind ELSE "nomatch",
                 before |-> b]
    /\ pc' = pc + 1
    /\ UNCHANGED <<engines, globals, obs>>

LoopNext == handleInline_iteration

SpecLoop == LoopInit /\ [][LoopNext]_vars

\* the field of b with the span its pattern matched replaced by text
SplicedWith(b, text) ==
    Slice(b.data, 0, b.startIndex + LoopMatch(b).groups[1].e) \o text
    \o From(b.data, b.startIndex + LoopMatch(b).groups[LoopPattern(b).ngroups].s)

\* the placeholder of the n-th node of the inline stash
PlaceholderNumbered(type, n) ==
    INLINE_PLACEHOLDER_PREFIX \o TypeName(type) \o <<":">> \o Fmt4(n)
    \o INLINE_PLACEHOLDER_SUFFIX

\* the last node put on the stash by the iteration and the text it left
StashedLast == io.st.inl[Len(io.st.inl)]

PlaceholderSpliced ==
    /\ Len(io.st.inl) > Len(io.before.st.inl)
    /\ io.data = SplicedWith(io.before,
                             PlaceholderNumbered(LoopPattern(io.before).type,
                                                 Len(io.st.inl) - 1))

\* C16: after pattern i matched and its handler gave an element, the
\* element is the newest node of the inline stash, its placeholder stands in
\* the field in place of the matched span, and the loop goes on with the
\* same pattern i from position 0 of the field: the pattern index never
\* goes back, so a pattern of lower index is not tried on the field again.
C16_ResumesAtSamePattern ==
    (io.op = "iteration" /\ io.kind = "el") =>
        /\ PlaceholderSpliced
        /\ ~StashedLast.isstr
        /\ StashedLast.el.tag = LoopHandled(io.before).el.tag
        /\ io.patternIndex = io.before.patternIndex
        /\ io.startIndex = 0

\* an emphasis element made by the pattern of index 15, after which the
\* loop is still at index 15
C16_EmphasisKeepsIndex ==
    /\ io.op = "iteration"
    /\ io.kind = "el"
    /\ io.before.patternIndex = 15
    /\ io.patternIndex = 15
    /\ StashedLast.el.tag = "em"
    /\ Len(io.st.inl) = 2

\* C16 as stated: after an element the loop resumes at pattern index 0
C16_ResumesAtFirstPattern ==
    (io.op = "iteration" /\ io.kind = "el") =>
        /\ PlaceholderSpliced
        /\ io.patternIndex = 0
        /\ io.startIndex = 0

\* C17: when pattern i matched and its handler gave a string, the string is
\* put on the inline stash as a node of its own, the placeholder of that
\* node stands in the field in place of the matched span, and the loop goes
\* on with the same pattern i from position 0 of the field.
C17_StringIsStashed ==
    (io.op = "iteration" /\ io.kind = "str") =>
        /\ io.st.inl = Append(io.before.st.inl, StrNode(LoopHandled(io.before).str))
        /\ PlaceholderSpliced
        /\ io.patternIndex = io.before.patternIndex
        /\ io.startIndex = 0

\* an escaped asterisk: the string "*" stashed by the pattern of index 1
C17_EscapedCharStashed ==
    /\ io.op = "iteration"
    /\ io.kind = "str"
    /\ io.before.patternIndex = 1
    /\ io.patternIndex = 1
    /\ StashedLast = StrNode(<<"*">>)
    /\ Len(io.data) > Len(PlaceholderNumbered("SimpleTextPattern", 0))

\* C17 as stated: the string itself replaces the span, nothing is put on
\* the stash, and the loop goes on with pattern i + 1 where the string is
C17_StringIsSpliced ==
    (io.op = "iteration" /\ io.kind = "str") =>
        /\ io.st.inl = io.before.st.inl
        /\ io.data = SplicedWith(io.before, LoopHandled(io.before).str)
        /\ io.patternIndex = io.before.patternIndex + 1
        /\ io.startIndex = io.before.startIndex + LoopMatch(io.before).groups[1].e

\* C18: when pattern i matched and its handler gave no replacement, the
\* field and the inline stash are as before, the pattern index is still i,
\* and the next search starts where the match ended, which is beyond the
\* position the search started from.
C18_NoReplacementAdvances ==
    (io.op = "iteration" /\ io.kind = "none") =>
        /\ io.data = io.before.data
        /\ io.st.inl = io.before.st.inl
        /\ io.patternIndex = io.before.patternIndex
        /\ io.startIndex = io.before.startIndex
                           + LoopMatch(io.before).groups[LoopPattern(io.before).ngroups].s
        /\ io.startIndex > io.before.startIndex

\* a reference to a label that was never defined, with text after it
C18_UnknownReferenceSkipped ==
    /\ io.op = "iteration"
    /\ io.kind = "none"
    /\ io.before.patternIndex = 2
    /\ io.before.startIndex = 0
    /\ io.startIndex = 6
    /\ Len(io.data) > 6

(***************************************************************************)
(* The tree walk of applyInlinePatterns and the texts it hands to          *)
(* _handleInline.  io.levels holds, call by call, the pattern index a call *)
(* of _handleInline started from: the tree walk calls it without an index  *)
(* (0), _applyInline calls it for the text of a new node at the index      *)
(* after that of the pattern that made the node, which is 1 or more.       *)
(***************************************************************************)
\* C19: in the inline run of a paragraph the tree walk hands one text to the
\* pattern engine from pattern index 0, the text of the paragraph: the texts
\* of the nodes that placeholder resolution put into the tree (escaped
\* characters and the texts of nested inline nodes among them) are not
\* handed to the engine from index 0 again.
C19_RestoredTextNotRehandled ==
    io.op = "applyInlinePatterns" =>
        \A k \in 1..Len(io.levels) : io.levels[k] = 0 => k = 1

(***************************************************************************)
(* Paragraph runs: sources of up to MaxParagraphLines lines without a      *)
(* blank line, made of text lines, rule markers and header lines.          *)
(***************************************************************************)
MaxParagraphLines == 3

ParagraphLines ==
    {<<"a">>, <<"b">>, <<"_", "_", "_">>, <<"*", "*", "*">>, <<"#", " ", "h">>}

ParagraphInit ==
    /\ pc = 0
    /\ io \in {[op |-> "source", lines |-> ls, source |-> Join(ls, <<"\n">>),
                err |-> "", tree |-> Element("span")] :
                  ls \in SeqUpTo(ParagraphLines, MaxParagraphLines)}
    /\ NoEngines

SpecParagraph == ParagraphInit /\ [][markdownToTree_call]_vars

\* the tests of _processParagraph for a rule marker and for a header line
RuleOrHeader(line) == Match_isline3(line) \/ StartsWith(line, <<"#">>)

\* a run that starts with a text line and has a rule marker or a header
\* line further on
RuleInsideRun(lines) ==
    /\ Len(lines) > 1
    /\ ~RuleOrHeader(lines[1])
    /\ \E k \in 2..Len(lines) : RuleOrHeader(lines[k])

\* C20: when a rule marker or a header line stands inside a paragraph run,
\* every text line of the run is a line of some text of the tree, and no
\* paragraph node has a child: the rule or header is a sibling of the
\* paragraph and not a node inside it.
C20_NoLineLost ==
    (io.op = "markdownToTree" /\ RuleInsideRun(io.lines)) =>
        /\ io.err = ""
        /\ \A k \in 1..Len(io.lines) :
              ~RuleOrHeader(io.lines[k]) =>
                  \E t \in TextsOf(io.tree) : io.lines[k] \in Range(Split(t, <<"\n">>))
        /\ \A j \in 1..Len(io.tree.children) :
              io.tree.children[j].tag = "p" => io.tree.children[j].children = <<>>

(***************************************************************************)
(* Rule lines: sources of up to MaxRuleLines lines, each a chunk of its    *)
(* own between blank lines, so that the k-th node of the tree comes from   *)
(* the k-th line.                                                          *)
(***************************************************************************)
MaxRuleLines == 3

RuleLines ==
    {<<"_">>, <<"_", "_">>, <<"_", "_", "_">>, <<"*", " ", "*", " ", "*">>,
     <<"*", "*", "*", "*">>, <<"a">>, <<"a", "_">>}

RuleInit ==
    /\ pc = 0
    /\ io \in {[op |-> "source", lines |-> ls, source |-> Join(ls, <<"\n", "\n">>),
                err |-> "", tree |-> Element("span")] :
                  ls \in SeqUpTo(RuleLines, MaxRuleLines)}
    /\ NoEngines

SpecRule == RuleInit /\ [][markdownToTree_call]_vars

\* C21: of the lines of a source, each a chunk of its own, the block parser
\* makes a rule node exactly for those that rule-line normalization
\* recognizes (three or more rule characters of one kind); every other
\* line, one of one or two underscores among them, becomes a paragraph.
C21_RuleOnlyForMarker ==
    io.op = "markdownToTree" =>
        /\ io.err = ""
        /\ Len(io.tree.children) = Len(io.lines)
        /\ \A k \in 1..Len(io.lines) :
              IF LinePreprocessor_isLine(io.lines[k])
              THEN io.tree.children[k].tag = "hr"
              ELSE /\ io.tree.children[k].tag = "p"
                   /\ io.tree.children[k].text = io.lines[k]

(***************************************************************************)
(* _processQuote on line lists of up to MaxQuoteLines lines that start     *)
(* with a quoted line (the test _processSection makes before the call), at *)
(* list depth 0 or 1.                                                      *)
(***************************************************************************)
MaxQuoteLines == 4

QuoteLines == {<<">", " ", "a">>, <<">", "b">>, <<"c">>, <<>>, <<" ">>}

QuoteInit ==
    /\ pc = 0
    /\ io \in {[op |-> "lines", lines |-> ls, inList |-> d, consumed |-> 0,
                dequoted |-> <<>>, tree |-> Element("div")] :
                  ls \in {s \in SeqUpTo(QuoteLines, MaxQuoteLines) :
                             Match_quoted(s[1]).matched},
                  d \in {0, 1}}
    /\ NoEngines

Markdown_processQuote ==
    /\ pc = 0
    /\ pc' = 1
    /\ \E r \in {Quote_loop(io.lines, <<>>, 0, FALSE)} :
          io' = [io EXCEPT !.op = "processQuote", !.consumed = r.i,
                           !.dequoted = r.dequoted,
                           !.tree = processQuote(Element("div"), io.lines, io.inList)]
    /\ UNCHANGED <<engines, globals, obs>>

SpecQuote == QuoteInit /\ [][Markdown_processQuote]_vars

BlankLine(line) == Strip(line) = <<>>

\* line k may belong to the quote, given that the lines before it do
QuoteTakes(lines, k) ==
    \/ Match_quoted(lines[k]).matched
    \/ /\ ~BlankLine(lines[k])
       /\ k > 1
       /\ ~BlankLine(lines[k - 1])
    \/ /\ BlankLine(lines[k])
       /\ k > 1
       /\ ~BlankLine(lines[k - 1])

\* the length of the longest prefix every line of which the quote takes
QuotePrefix(lines) ==
    Greatest({n \in 0..Len(lines) : \A k \in 1..n : QuoteTakes(lines, k)})

\* C22: the quote consumes the longest prefix of lines each of which is
\* quote-prefixed, or non-blank right after a non-blank line, or blank right
\* after a non-blank line; the prefixed lines lose their prefix; the
\* consumed lines become the content of the blockquote node and the lines
\* left over are processed into the same parent at the same list depth.
C22_MaximalQuotePrefix ==
    io.op = "processQuote" =>
        /\ io.consumed = QuotePrefix(io.lines)
        /\ io.dequoted = [k \in 1..io.consumed |->
                             IF Match_quoted(io.lines[k]).matched
                             THEN Match_quoted(io.lines[k]).g1 ELSE io.lines[k]]
        /\ io.tree.children[1]
             = processSection(Element("blockquote"), io.dequoted, io.inList, 0)
        /\ Tail(io.tree.children)
             = processSection(Element("div"), From(io.lines, io.consumed),
                              io.inList, 0).children

\* a quote ended by a blank line that an unprefixed line follows
C22_BlankThenUnprefixed ==
    /\ io.op = "processQuote"
    /\ io.lines = <<<<">", " ", "a">>, <<>>, <<"c">>>>
    /\ io.consumed = 2
    /\ Len(io.tree.children) = 2
    /\ io.tree.children[2].text = <<"c">>

(***************************************************************************)
(* HtmlBlockPreprocessor.run on texts of up to MaxChunks chunks between    *)
(* blank lines: complete raw blocks, blocks that open in one chunk and     *)
(* close in a later one, one-line tags, span-level tags, a lone "<" and    *)
(* plain text.                                                             *)
(***************************************************************************)
MaxChunks == 3

Chunks ==
    {<<"<", "d", "i", "v", ">", "a", "<", "/", "d", "i", "v", ">">>,
     <<"<", "p", ">", "a">>, <<"b", "<", "/", "p", ">">>,
     <<"<", "!", "-", "-", " ", "c">>, <<"d", " ", "-", "-", ">">>,
     <<"<", "h", "r", ">">>, <<"<", "b", ">", "x", "<", "/", "b", ">">>,
     <<"<">>, <<"x">>}

RawBlockInit ==
    /\ pc = 0
    /\ io \in {[op |-> "text", chunks |-> cs, text |-> Join(cs, <<"\n", "\n">>),
                err |-> "", out |-> <<>>, stash |-> NewHtmlStash] :
                  cs \in SeqUpTo(Chunks, MaxChunks)}
    /\ NoEngines

HtmlBlockPreprocessor_call ==
    /\ pc = 0
    /\ pc' = 1
    /\ \E r \in {HtmlBlockPreprocessor_run(io.text, NewHtmlStash)} :
          io' = [io EXCEPT !.op = "run", !.err = r.err, !.out = r.text,
                           !.stash = r.stash]
    /\ UNCHANGED <<engines, globals, obs>>

SpecRawBlock == RawBlockInit /\ [][HtmlBlockPreprocessor_call]_vars

\* the placeholders of a stash, and a chunk of the output with the stashed
\* fragment in place of a placeholder
StashPlaceholders(stash) == {HTML_PLACEHOLDER(n) : n \in 0..(stash.html_counter - 1)}

Substituted(stash, chunk) ==
    IF chunk \in StashPlaceholders(stash)
    THEN stash.rawHtmlBlocks[CHOOSE n \in 1..stash.html_counter :
                                 chunk = HTML_PLACEHOLDER(n - 1)].html
    ELSE chunk

\* the chunks of the output that are placeholders, in their order
EmittedPlaceholders(stash, chunks) ==
    SelectSeq(chunks, LAMBDA c : c \in StashPlaceholders(stash))

\* C23: the extractor returns; the placeholders of the stashed fragments
\* stand in its output once each, in the order the fragments were stored;
\* and the output with every placeholder replaced by its fragment is the
\* input text, followed by a chunk of one newline when a block was still
\* open at the end of the input.
C23_RoundTrip ==
    io.op = "run" =>
        /\ io.err = ""
        /\ Len(io.stash.rawHtmlBlocks) = io.stash.html_counter
        /\ EmittedPlaceholders(io.stash, Split(io.out, <<"\n", "\n">>))
             = [n \in 1..io.stash.html_counter |-> HTML_PLACEHOLDER(n - 1)]
        /\ Join([k \in 1..Len(Split(io.out, <<"\n", "\n">>)) |->
                    Substituted(io.stash, Split(io.out, <<"\n", "\n">>)[k])],
                <<"\n", "\n">>)
             \in {io.text, io.text \o <<"\n", "\n", "\n">>}

(***************************************************************************)
(* _processList on line lists of up to MaxListLines lines that start with  *)
(* a list item, at list depth 0 or 1: items of both kinds, an indented     *)
(* line, a plain line and blank lines.                                     *)
(***************************************************************************)
MaxListLines == 4

ListLines ==
    {<<"*", " ", "a">>, <<"1", ".", " ", "b">>, <<" ", " ", " ", " ", "c">>,
     <<"d">>, <<>>}

ListBlankInit ==
    /\ pc = 0
    /\ io \in {[op |-> "lines", lines |-> ls, inList |-> d,
                listexpr |-> IF Match_ul(ls[1]).matched THEN "ul" ELSE "ol",
                items |-> <<>>, consumed |-> 0, looseList |-> 0,
                tree |-> Element("div")] :
                  ls \in {s \in SeqUpTo(ListLines, MaxListLines) :
                             Match_ul(s[1]).matched \/ Match_ol(s[1]).matched},
                  d \in {0, 1}}
    /\ NoEngines

Markdown_processList ==
    /\ pc = 0
    /\ pc' = 1
    /\ \E r \in {List_loop(io.lines, 0, <<>>, 0, 0, io.listexpr)} :
          io' = [io EXCEPT !.op = "processList", !.items = r.items,
                           !.consumed = r.i, !.looseList = r.looseList,
                           !.tree = processList(Element("div"), io.lines, io.inList,
                                                io.listexpr, io.listexpr)]
    /\ UNCHANGED <<engines, globals, obs>>

SpecListBlank == ListBlankInit /\ [][Markdown_processList]_vars

\* the first non-blank line after line k, <<>> when there is none
NonBlankAfter(lines, k) ==
    IF \E j \in (k + 1)..Len(lines) : Strip(lines[j]) # <<>>
    THEN lines[Least({j \in (k + 1)..Len(lines) : Strip(lines[j]) # <<>>})]
    ELSE <<>>

\* a line that starts an item of a list of the kind listexpr, and a line
\* that starts an item of a list of either kind
OwnItem(listexpr, line) ==
    IF listexpr = "ul" THEN Match_ul(line).matched ELSE Match_ol(line).matched

AnyItem(listexpr, line) == Match_ul(line).matched \/ Match_ol(line).matched

\* the lines the list takes when GoesOn tells which lines after a blank
\* line continue it: all of them, or those up to the first blank line that
\* no such line follows
ListEnd(lines, listexpr, GoesOn(_, _)) ==
    Least({k \in 1..Len(lines) :
              /\ Strip(lines[k]) = <<>>
              /\ ~(GoesOn(listexpr, NonBlankAfter(lines, k))
                   \/ Match_tabbed(NonBlankAfter(lines, k)).matched)})

BlankLineRule(GoesOn(_, _)) ==
    io.op = "processList" =>
        /\ IF ListEnd(io.lines, io.listexpr, GoesOn) < 0
           THEN io.consumed > Len(io.lines)
           ELSE io.consumed = ListEnd(io.lines, io.listexpr, GoesOn)
        /\ io.looseList = 1
             <=> \E k \in 1..Min(io.consumed - 1, Len(io.lines)) :
                    Strip(io.lines[k]) = <<>>
        /\ Cardinality({<<n, j>> \in (1..Len(io.items)) \X (1..MaxListLines) :
                           j <= Len(io.items[n])})
             = Min(io.consumed - 1, Len(io.lines))
        /\ io.tree.children[1].tag = io.listexpr
        /\ Tail(io.tree.children)
             = processSection(Element("div"), From(io.lines, io.consumed),
                              io.inList, 0).children

\* C24: a blank line is kept inside the list, and the list is loose, exactly
\* when the next non-blank line starts an item of the list's own kind (a
\* bullet in a bullet list, a number in a numbered list) or is indented;
\* otherwise the list ends at the blank line, the blank line is consumed and
\* the lines after it are processed into the same parent at the same depth.
C24_BlankKeptBeforeOwnItem == BlankLineRule(OwnItem)

\* a bullet list ended by a blank line before a numbered item, which
\* becomes a list of its own next to it
C24_OtherKindEndsList ==
    /\ io.op = "processList"
    /\ io.lines = <<<<"*", " ", "a">>, <<>>, <<"1", ".", " ", "b">>>>
    /\ io.consumed = 2
    /\ io.looseList = 0
    /\ Len(io.tree.children) = 2
    /\ io.tree.children[2].tag = "ol"

\* C24 as stated: a blank line is kept whenever the next non-blank line
\* starts a list item, of whichever kind, or is indented
C24_BlankKeptBeforeAnyItem == BlankLineRule(AnyItem)

(***************************************************************************)
(* One conversion taken phase by phase, as convert, markdownToTree and     *)
(* _transform call them: io.phase names the last phase that finished, and  *)
(* io holds what that phase left for the next one.  A phase that raises    *)
(* ends the conversion.                                                    *)
(***************************************************************************)
MaxPhaseChunks == 2

PhaseChunks ==
    {S_RefLink, S_RefDef, S_Emphasis, S_InlineHtml, S_Less, <<"x">>,
     <<"<", "d", "i", "v", ">", "x", "<", "/", "d", "i", "v", ">">>}

Phases == <<"source", "text", "lines", "tree", "resolved", "xml", "done">>

PhaseIndex(phase) == CHOOSE k \in 1..Len(Phases) : Phases[k] = phase

PhaseInit ==
    /\ pc = 0
    /\ io \in {[phase |-> "source", chunks |-> cs, source |-> Join(cs, <<"\n", "\n">>),
                err |-> "", text |-> <<>>, lines |-> <<>>, references |-> EmptyDict,
                htmlStash |-> NewHtmlStash, inlineStash |-> NewInlineStash,
                tree |-> Element("span"), xml |-> <<>>, out |-> <<>>] :
                  cs \in SeqUpTo(PhaseChunks, MaxPhaseChunks)}
    /\ NoEngines

\* markdownToTree: the fix-up of the source and the text preprocessors
Phase_textPreprocessors ==
    /\ io.phase = "source"
    /\ \E h \in {HtmlBlockPreprocessor_run(FixupSource(io.source), io.htmlStash)} :
          io' = [io EXCEPT !.phase = IF h.err = "" THEN "text" ELSE "raised",
                           !.err = h.err, !.text = h.text, !.htmlStash = h.stash]
    /\ pc' = pc + 1
    /\ UNCHANGED <<engines, globals, obs>>

\* _transform: the split into lines and the line preprocessors
Phase_preprocessors ==
    /\ io.phase = "text"
    /\ \E p \in {RunPreprocessors(Split(io.text, <<"\n">>), io.references)} :
          io' = [io EXCEPT !.phase = IF p.err = "" THEN "lines" ELSE "raised",
                           !.err = p.err, !.lines = p.lines,
                           !.references = p.references]
    /\ pc' = pc + 1
    /\ UNCHANGED <<engines, globals, obs>>

\* _transform: the block parser
Phase_transform ==
    /\ io.phase = "lines"
    /\ io' = [io EXCEPT !.phase = "tree", !.tree = BuildTree(io.lines)]
    /\ pc' = pc + 1
    /\ UNCHANGED <<engines, globals, obs>>

\* convert: applyInlinePatterns
Phase_applyInlinePatterns ==
    /\ io.phase = "tree"
    /\ \E a \in {applyInlinePatterns(io.tree,
                                     InlineState(io.inlineStash, io.htmlStash,
                                                 io.references, ""))} :
          io' = [io EXCEPT !.phase = "resolved", !.tree = a.root,
                           !.inlineStash = a.st.inl, !.htmlStash = a.st.html,
                           !.references = a.st.refs]
    /\ pc' = pc + 1
    /\ UNCHANGED <<engines, globals, obs>>

\* convert: indentETree, tostring and the cut of the top-level tags
Phase_serialize ==
    /\ io.phase = "resolved"
    /\ \E xml \in {Strip(tostring(indentETree(io.tree, 0)))} :
          io' = [io EXCEPT !.phase = "xml",
                           !.xml = Slice(xml, 44, Len(xml) - 7) \o <<"\n">>]
    /\ pc' = pc + 1
    /\ UNCHANGED <<engines, globals, obs>>

\* convert: the text postprocessors
Phase_textPostprocessors ==
    /\ io.phase = "xml"
    /\ io' = [io EXCEPT !.phase = "done",
                        !.out = Strip(AndSubstitutePostprocessor_run(
                                          RawHtmlTextPostprocessor_run(
                                              io.xml, io.htmlStash, "")))]
    /\ pc' = pc + 1
    /\ UNCHANGED <<engines, globals, obs>>

PhaseNext ==
    \/ Phase_textPreprocessors
    \/ Phase_preprocessors
    \/ Phase_transform
    \/ Phase_applyInlinePatterns
    \/ Phase_serialize
    \/ Phase_textPostprocessors

SpecPhases == PhaseInit /\ [][PhaseNext]_vars

ResolvedLink ==
    <<"<", "a", " ", "h", "r", "e", "f", "=", "\"", "/", "u", "\"", ">", "x",
      "<", "/", "a", ">">>

\* a step of a conversion: the phases follow one another in the fixed
\* order, the reference table is written by the line preprocessors only,
\* the raw-fragment stash by the text preprocessors and the inline
\* resolution only, and the tree by the block parser and the inline
\* resolution only
PhaseStep ==
    /\ io'.phase = "raised" \/ PhaseIndex(io'.phase) = PhaseIndex(io.phase) + 1
    /\ io'.references # io.references => io.phase = "text"
    /\ io'.htmlStash # io.htmlStash => io.phase \in {"source", "tree"}
    /\ io'.tree # io.tree => io.phase \in {"lines", "tree"}
    /\ io'.inlineStash # io.inlineStash => io.phase = "tree"

\* what a finished conversion returns
PhaseEnd ==
    io.phase = "done" =>
        /\ io.out = convert(io.source, NewInlineStash, NewHtmlStash, EmptyDict,
                            "", "").out
        /\ (\E j, k \in 1..Len(io.chunks) :
               io.chunks[j] = S_RefLink /\ io.chunks[k] = S_RefDef)
             => Contains(io.out, ResolvedLink)

\* C25: the phases of a conversion run in the order text preprocessing,
\* line preprocessing, block parsing, inline resolution, serialization,
\* restoration of the raw fragments, one after the other; the reference
\* table is written during line preprocessing only, before the inline
\* resolution reads it, so that a link is resolved also when its definition
\* stands after it in the source.
C25_PhaseOrder == [][PhaseStep]_vars /\ []PhaseEnd

\* a finished conversion of a source with the definition after the link
C25_LateDefinitionResolved ==
    /\ io.phase = "done"
    /\ io.chunks = <<S_RefLink, S_RefDef>>
    /\ Contains(io.out, ResolvedLink)

(***************************************************************************)
(* The calls of _handleInline that one iteration of the loop makes for the *)
(* node its pattern gave: io.st.fields and io.st.levels hold the texts and *)
(* the starting pattern indexes of the calls, those of the iteration after *)
(* those of the iterations before.                                         *)
(***************************************************************************)
NewCalls == (Len(io.before.st.fields) + 1)..Len(io.st.fields)

\* the node and its direct children, as "[node] + node.getchildren()"
NodeAndChildren(el) == <<el>> \o el.children

\* C26: when pattern i gave a node that is not a code node, every text of
\* the node and of its direct children that is not empty was handed to
\* _handleInline starting at pattern i + 1, no call of the iteration started
\* at a pattern of index i or less, and the node that went on the stash has
\* the text this call returned: the recursion ran before the placeholder
\* was made.  (No handler gives a node with a tail, so the call for the
\* tail at pattern i never happens.)  A code node causes no call.
C26_NodeTextFromNextPattern ==
    (io.op = "iteration" /\ io.kind = "el") =>
        IF LoopHandled(io.before).el.tag \in {"code", "pre"}
        THEN NewCalls = {}
        ELSE /\ \A k \in NewCalls : io.st.levels[k] >= io.before.patternIndex + 1
             /\ \A c \in Range(NodeAndChildren(LoopHandled(io.before).el)) :
                   /\ c.tail = <<>>
                   /\ c.text # <<>> =>
                         \E k \in NewCalls :
                            /\ io.st.fields[k] = c.text
                            /\ io.st.levels[k] = io.before.patternIndex + 1
             /\ LoopHandled(io.before).el.text # <<>> =>
                   StashedLast.el.text
                     = handleInline(LoopHandled(io.before).el.text,
                                    io.before.patternIndex + 1,
                                    LoopHandled(io.before).st).data

\* strong emphasis made by the pattern of index 13: the text of the em
\* child is handed on from pattern 14
C26_ChildTextFromNextPattern ==
    /\ io.op = "iteration"
    /\ io.kind = "el"
    /\ io.before.patternIndex = 13
    /\ StashedLast.el.tag = "strong"
    /\ Len(StashedLast.el.children) = 1
    /\ \E k \in NewCalls : io.st.fields[k] = <<"a">> /\ io.st.levels[k] = 14

(***************************************************************************)
(* Termination of the loop of _handleInline.  The loop is one thread of    *)
(* control that runs until its condition fails, so an iteration that can   *)
(* be taken is taken: weak fairness of the iteration.  LoopTick is the     *)
(* iteration without what it computes: its guard, its count and the frame. *)
(* Every step of LoopNext is a step of LoopTick, the two are enabled in    *)
(* the same states, and the only steps of a behaviour of the loop are      *)
(* those of LoopNext, so fairness of LoopTick is fairness of LoopNext.     *)
(***************************************************************************)
LoopTick ==
    /\ pc < MaxIterations
    /\ io.op \in {"field", "iteration"}
    /\ io.patternIndex < Len(inlinePatterns)
    /\ pc' = pc + 1
    /\ UNCHANGED <<engines, globals, obs>>
    /\ (io' = io \/ io'.op = "iteration")

SpecLoopFair == LoopInit /\ [][LoopNext]_vars /\ WF_vars(LoopTick)

\* the number of characters of data that are not part of a placeholder
\* (a placeholder runs from an STX to the next ETX)
RawChars(data) ==
    Cardinality({p \in 1..Len(data) :
                    Greatest({s \in 1..p : data[s] = STX})
                      <= Greatest({q \in 1..(p - 1) : data[q] = ETX})})

\* what an iteration does: it moves on to the next pattern, or it moves the
\* search position forward under the same pattern, or it puts a node on
\* the stash and its placeholder in place of a matched span that held
\* characters other than those of placeholders
LoopProgress ==
    io.op = "iteration" =>
        \/ /\ io.kind = "nomatch"
           /\ io.patternIndex = io.before.patternIndex + 1
           /\ io.data = io.before.data
        \/ /\ io.kind = "none"
           /\ io.patternIndex = io.before.patternIndex
           /\ io.startIndex > io.before.startIndex
           /\ io.data = io.before.data
        \/ /\ io.kind \in {"str", "el"}
           /\ io.patternIndex = io.before.patternIndex
           /\ PlaceholderSpliced
           /\ RawChars(io.data) < RawChars(io.before.data)

\* C27: every iteration of the inline matching loop advances the pattern
\* index, or advances the search position under the same pattern, or
\* replaces a matched span that is not made of placeholders alone by a
\* placeholder, which lowers the number of characters outside placeholders;
\* and the loop comes to its end, with the pattern index past the last
\* pattern, on every field.
C27_LoopTerminates == []LoopProgress /\ <>(io.patternIndex = Len(inlinePatterns))

\* the end of the loop on a field in which the emphasis pattern matched
\* twice
C27_EndAfterTwoMatches ==
    /\ io.op = "iteration"
    /\ io.patternIndex = Len(inlinePatterns)
    /\ io.st.applied = <<15, 15>>
    /\ RawChars(io.data) = 0

(***************************************************************************)
(* The section loop step by step.  The calls of _processSection that are   *)
(* still to run are kept as a stack of [lines, inList] frames, the call    *)
(* that runs next on top; one action is one iteration of "while lines:"    *)
(* together with the handler it dispatches to.  Only the consumption of    *)
(* lines is followed here; the tree the calls build is processSection.     *)
(***************************************************************************)
MaxSectionLines == 3

MaxDepth == 2

MaxSectionSteps == 80

SectionLines ==
    {<<"*", " ", "a">>, <<"1", ".", " ", "b">>, <<">", " ", "c">>,
     <<" ", " ", " ", " ", "d">>, <<"_", "_", "_">>, <<"e">>, <<" ">>, <<>>}

Frame(lines, inList) == [lines |-> lines, inList |-> inList]

\* the frames _processItems opens, one per item, at depth inList + 1
ItemFrames(items, inList) == [k \in 1..Len(items) |-> Frame(items[k], inList + 1)]

\* one iteration of the loop of _processSection on a non-empty line list:
\* the calls it makes (inner) and the lines and depth it goes on with
processSection_step(lines, inList) ==
    IF lines[1] = <<>>
    THEN [kind |-> "empty", inner |-> <<>>, rest |-> Frame(Tail(lines), inList)]
    ELSE IF Match_ul(lines[1]).matched
    THEN With(List_loop(lines, 0, <<>>, 0, 0, "ul"), LAMBDA r :
              [kind |-> "list", inner |-> ItemFrames(r.items, inList),
               rest |-> Frame(From(lines, r.i), inList)])
    ELSE IF Match_ol(lines[1]).matched
    THEN With(List_loop(lines, 0, <<>>, 0, 0, "ol"), LAMBDA r :
              [kind |-> "list", inner |-> ItemFrames(r.items, inList),
               rest |-> Frame(From(lines, r.i), inList)])
    ELSE IF Match_quoted(lines[1]).matched
    THEN With(Quote_loop(lines, <<>>, 0, FALSE), LAMBDA r :
              [kind |-> "quote", inner |-> <<Frame(r.dequoted, inList)>>,
               rest |-> Frame(From(lines, r.i), inList)])
    ELSE IF Match_tabbed(lines[1]).matched
    THEN [kind |-> "code", inner |-> <<>>,
          rest |-> Frame(detectTabbed(lines).rest, inList)]
    ELSE IF inList # 0
    THEN With(linesUntil(lines, IsListOrBlank), LAMBDA sp :
              [kind |-> "nested", inner |-> <<Frame(sp.head, inList - 1)>>,
               rest |-> Frame(SkipBlank(sp.rest), inList - 1)])
    ELSE With(linesUntil(lines, IsBlankOrQuote), LAMBDA sp :
              IF /\ sp.head # <<>>
                 /\ ~StartsWith(sp.head[1], <<"#">>)
                 /\ Match_isline3(sp.head[1])
              THEN [kind |-> "rule", inner |-> <<>>,
                    rest |-> Frame(SkipBlank(Tail(sp.head) \o sp.rest), inList)]
              ELSE [kind |-> "paragraph", inner |-> <<>>,
                    rest |-> Frame(SkipBlank(sp.rest), inList)])

SectionInit ==
    /\ pc = 0
    /\ io \in {[op |-> "lines", frames |-> <<Frame(ls, d)>>,
                kind |-> "", before |-> Frame(<<>>, 0), inner |-> <<>>,
                rest |-> Frame(<<>>, 0)] :
                  ls \in SeqUpTo(SectionLines, MaxSectionLines), d \in 0..MaxDepth}
    /\ NoEngines

\* the call on top of the stack runs one iteration, or returns on an empty list
processSection_iteration ==
    /\ pc < MaxSectionSteps
    /\ io.frames # <<>>
    /\ pc' = pc + 1
    /\ \E f \in {Head(io.frames)} :
          IF f.lines = <<>>
          THEN io' = [op |-> "iteration", frames |-> Tail(io.frames),
                      kind |-> "return", before |-> f, inner |-> <<>>, rest |-> f]
          ELSE \E s \in {processSection_step(f.lines, f.inList)} :
                  io' = [op |-> "iteration",
                         frames |-> s.inner \o <<s.rest>> \o Tail(io.frames),
                         kind |-> s.kind, before |-> f, inner |-> s.inner,
                         rest |-> s.rest]
    /\ UNCHANGED <<engines, globals, obs>>

SectionNext == processSection_iteration

SpecSection == SectionInit /\ [][SectionNext]_vars

\* a call that is still open runs on: the guard of processSection_iteration
SectionTick ==
    /\ pc < MaxSectionSteps
    /\ io.frames # <<>>
    /\ pc' = pc + 1
    /\ UNCHANGED <<engines, globals, obs>>
    /\ (io' = io \/ io'.op = "iteration")

SpecSectionFair == SpecSection /\ WF_vars(SectionTick)

\* the number of characters of a line list
ContentSize(lines) == Len(Join(lines, <<>>))

\* the iteration that has just run went on with fewer lines than it was
\* given, and a list or a quote passed strictly shorter content down
IterationConsumes ==
    io.op = "iteration" /\ io.kind # "return" =>
        /\ Len(io.rest.lines) < Len(io.before.lines)
        /\ \A k \in 1..Len(io.inner) :
              /\ Len(io.inner[k].lines) <= Len(io.before.lines)
              /\ io.kind \in {"list", "quote"} =>
                    ContentSize(io.inner[k].lines) < ContentSize(io.before.lines)
              /\ io.kind = "nested" => io.inner[k].inList < io.before.inList

DepthNotNegative == \A k \in 1..Len(io.frames) : io.frames[k].inList >= 0

\* C28: block parsing terminates on every line list: each iteration of the
\* section loop, with the list, quote or code-block handler it calls, goes
\* on with at least one line fewer (list items and quotes are processed
\* as strictly shorter content), the list depth is never negative, and
\* every call of _processSection returns.
C28_BlockParsingTerminates ==
    /\ [](IterationConsumes /\ DepthNotNegative)
    /\ <>(io.frames = <<>>)

\* a whitespace-only first line has been consumed at a positive list depth
\* and this was the last line of the call
C28_BlankConsumedInList ==
    /\ io.op = "iteration"
    /\ io.kind = "nested"
    /\ io.before.lines[1] = <<" ">>
    /\ io.before.inList > 0
    /\ io.inner[1].lines = <<>>
    /\ Len(io.rest.lines) = Len(io.before.lines) - 1

(***************************************************************************)
(* The text a conversion returns, for sources in which an inline           *)
(* placeholder is made inside a link target, a title or an inline raw      *)
(* fragment before the pattern that takes that text runs.                  *)
(***************************************************************************)
MaxOutputChunks == 2

OutputChunks ==
    {<<"[", "x", "]", "(", "/", "u", " ", "\"", TICK, "c", TICK, "\"", ")">>,
     <<"[", "x", "]", "(", "/", "u", " ", "\"", "\\", "*", "\"", ")">>,
     <<"<", "i", " ", TICK, "c", TICK, ">">>,
     <<TICK, "c", TICK>>,
     <<"<", "b", ">", "x", "<", "/", "b", ">">>,
     <<"a", " ", "&", " ", "b">>,
     <<"<", "p", ">", "x", "<", "/", "p", ">">>,
     <<"x">>}

OutputInit ==
    /\ pc = 0
    /\ io \in {[phase |-> "source", chunks |-> cs, source |-> Join(cs, <<"\n", "\n">>),
                err |-> "", text |-> <<>>, lines |-> <<>>, references |-> EmptyDict,
                htmlStash |-> NewHtmlStash, inlineStash |-> NewInlineStash,
                tree |-> Element("span"), xml |-> <<>>, out |-> <<>>] :
                  cs \in SeqUpTo(OutputChunks, MaxOutputChunks)}
    /\ NoEngines

SpecOutput == OutputInit /\ [][PhaseNext]_vars

Reserved(text) == {k \in 1..Len(text) : text[k] \in {STX, ETX}}

\* C29 as stated: the text convert returns holds no reserved placeholder
\* code point.
C29_NoReservedInOutput == io.phase = "done" => Reserved(io.out) = {}

(***************************************************************************)
(* The line list heading normalization receives in a conversion: the text  *)
(* the raw-block extractor returns, split at the line ends.                *)
(***************************************************************************)
MaxHeadingChunks == 2

HeadingChunks ==
    {S_OpenDiv, <<"<", "p", ">", "a">>, <<"b", "<", "/", "p", ">">>,
     <<"<", "d", "i", "v", ">", "x", "<", "/", "d", "i", "v", ">">>,
     <<"#", " ", "h">>, <<"h", "\n", "=">>, <<"x">>}

HeadingInit ==
    /\ pc = 0
    /\ io \in {[phase |-> "source", chunks |-> cs, source |-> Join(cs, <<"\n", "\n">>),
                err |-> "", text |-> <<>>, lines |-> <<>>, references |-> EmptyDict,
                htmlStash |-> NewHtmlStash, inlineStash |-> NewInlineStash,
                tree |-> Element("span"), xml |-> <<>>, out |-> <<>>] :
                  cs \in SeqUpTo(HeadingChunks, MaxHeadingChunks)}
    /\ NoEngines

SpecHeading == HeadingInit /\ [][PhaseNext]_vars

\* the lines _transform hands to the line preprocessors
HeadingLines == Split(io.text, <<"\n">>)

\* C30 as stated: the line list heading normalization receives ends with a
\* blank line, and its read of the line after the current one stays
\* within the list.
C30_HeadingInputEndsBlank ==
    io.phase = "text" =>
        /\ IsBlank(HeadingLines[Len(HeadingLines)])
        /\ HeaderPreprocessor_run(HeadingLines).err = ""

====
